---- MODULE Spec2Model ----
(***************************************************************************)
(* Arkestra: the memory-consolidation ("sleep") job and the per-turn       *)
(* orchestration pipeline, as state machines.                              *)
(*                                                                         *)
(* SleepSpec : scripts/consolidate_sleep.py run by two processes (the      *)
(*             scheduler job and the CLI /sleep command) over one SQLite   *)
(*             database, interleaved with message appends and the clock.   *)
(* TurnSpec  : app/core/orchestrator.py handle_user, one stage per step,   *)
(*             every collaborator free to answer, to fail or to stay       *)
(*             silent, and the /chat endpoint that answers the client.     *)
(*             TurnLiveSpec adds the fairness of the thread that runs it.  *)
(* NeuroSpec : app/core/neuro.py, the affect state under its mutators.     *)
(* BanditSpec: upsert_bandit and decay_bandit of app/memory/db.py called   *)
(*             by two threads over the table bandit_stats.                 *)
(* PickSpec  : app/core/bandit.py pick over the tables the writers leave.  *)
(* ServerSpec: the turn together with the endpoints /feedback and /approve  *)
(*             of app/server/main.py.                                      *)
(* PackSpec  : app/core/budget.py trim over bounded histories, retrieved   *)
(*             documents, dispatcher metadata and token budgets.           *)
(* LongDaySpec : the sleep job over days whose summaries are long.          *)
(* DecaySpec : neuro.decay_step called again and again (with fairness).    *)
(* ReminderSpec : app/core/reminders.py in two worker processes.           *)
(* AliasSpec : the tools alias.add and alias.set_primary.                  *)
(***************************************************************************)
EXTENDS Integers, Sequences, FiniteSets, TLC

(***************************************************************************)
(* Bounds of the model                                                     *)
(***************************************************************************)
MaxMsgs == 2        \* messages appended to the raw log
MaxBatches == 2     \* committed rows of sleep_batches
DayLen == 2         \* clock seconds per calendar day
MaxOutcomes == 2    \* calls of upsert_bandit
MaxDecays == 2      \* calls of decay_bandit
MaxHistory == 18    \* messages of the history handed to trim
MaxFeedback == 1    \* requests to the feedback endpoint
MaxReminders == 2   \* rows of the table reminders
MaxNotes == 3       \* notification messages appended by _fire

(***************************************************************************)
(* Program constants                                                       *)
(***************************************************************************)
EPOCH == 0                   \* "1970-01-01 00:00:00"
TTL_DAYS == 7                \* timedelta(days=7)
SUMMARY_MAX_TOKENS == 400    \* summarize_day(chunks, max_tokens=400)
LONG_SUMMARY_CHARS == 2000   \* row["all_text"][:2000]
LEVEL_MAX == 11              \* _clamp_level upper end
SMALLTALK_MIN_WORDS == 20    \* len(text.split()) >= 20
SENIOR_MAX_CALLS == 3        \* llm_generate call sites a reply can pass
HEADROOM == 128              \* max_tokens - 128
HISTORY_CAP_FLOOR == 300     \* max(300, ...)
HISTORY_CAP_CEIL == 600      \* min(600, history_cap)
MIN_MESSAGES == 10           \* min(10, len(history))
MAX_MESSAGES == 16           \* max_messages = 16

Jump == TTL_DAYS * DayLen            \* a pause as long as the retention window
Start == EPOCH + 1                   \* the clock when the model starts

Procs == {"scheduler", "cli"}        \* the two callers of run_sleep_batch

_NEUROTRANSMITTERS ==
  {"dopamine", "serotonin", "norepinephrine", "acetylcholine", "gaba",
   "glutamate", "endorphins", "oxytocin", "vasopressin", "histamine"}

VARIABLES
  now,            \* the wall clock, in seconds (CURRENT_TIMESTAMP, utcnow())
  messages,       \* table messages, in id order: [id, ts, text]
  day_summaries,  \* table day_summaries (temp tier), in rowid order
  long_days,      \* table long_days (permanent tier), in rowid order
  sleep_batches,  \* table sleep_batches (ledger), in commit order
  pc,             \* per process: position inside run_sleep_batch
  from_seen,      \* per process: local from_seen
  to_seen,        \* per process: local to_seen
  msgs,           \* per process: local msgs (the collected rows)
  ended,          \* how the call of run_sleep_batch that has just returned ended
  levels,         \* per process: neuro._LEVELS
  h_seen,         \* history: per process, Len(messages) when it collected
  h_solo,         \* history: per process, no other run overlaps this one
  stage,          \* handle_user: the stage the turn is at
  jsonschema_pkg, \* which package `import jsonschema` resolves to
  jr,             \* handle_user: local jr, the dispatch decision
  rag_hits,       \* handle_user: local rag_hits
  reply,          \* handle_user: local reply
  tool_results,   \* handle_user: local tool_results
  envelope,       \* what handle_user returned
  raised,         \* the call whose exception left handle_user ("none")
  sr,             \* history: what the generate_structured call did
  h_jr_bad,       \* history: the dispatcher failed or its output was invalid
  h_jr_calls,     \* history: the model calls generate made for the dispatcher
  h_refine,       \* history: the draft before the span refine and the call made
  tools,          \* the rows of the table tools
  h_tools,        \* history: the tool_instructions handed to the executor
  h_tool_fail,    \* history: the positions of the tool calls that fail
  waiting,        \* the collaborator whose call has not come back ("none")
  response,       \* what the /chat endpoint answered its client
  bandit_stats,   \* table bandit_stats: per (intent, kind) its row, or none
  b_pc,           \* per caller of upsert_bandit: "idle", or "read" after SELECT
  b_call,         \* per caller: the arguments and the row it has read
  b_done,         \* calls of upsert_bandit that have ended
  b_decays,       \* calls of decay_bandit that have ended
  picked,         \* the call of pick that has just returned
  b_hist,         \* history: per arm, its first row and the calls ended on it
  message_meta,   \* the metadata side-table: per message id, its key-value pairs
  feedback,       \* table feedback, in id order: [msg_id, kind]
  h_steps,        \* history: the stages handle_user has started, in order
  pack_in,        \* the arguments of the call of trim
  packed,         \* what that call returned
  reminders,      \* table reminders, and per process its scheduler's jobs
  aliases         \* table aliases, and what the last call of the tool returned

sleep_vars == <<now, messages, day_summaries, long_days, sleep_batches,
                pc, from_seen, to_seen, msgs, ended, levels, h_seen, h_solo>>

turn_aux == <<h_tool_fail, waiting, response, message_meta>>

turn_vars == <<stage, jsonschema_pkg, jr, rag_hits, reply, tool_results,
               envelope, raised, sr, h_jr_bad, h_jr_calls, h_refine, h_tools, turn_aux, feedback, h_steps>>

bandit_vars == <<bandit_stats, b_pc, b_call, b_done, b_decays, picked, b_hist>>

pack_vars == <<pack_in, packed>>

tooldb_vars == <<reminders, aliases>>

vars == <<sleep_vars, turn_vars, bandit_vars, pack_vars, tools, tooldb_vars>>

(***************************************************************************)
(* Helpers                                                                 *)
(***************************************************************************)
Max(a, b) == IF a >= b THEN a ELSE b
Min(a, b) == IF a <= b THEN a ELSE b
Take(s, n) == SubSeq(s, 1, Min(n, Len(s)))
Last(s) == s[Len(s)]
Range(s) == {s[i] : i \in DOMAIN s}

RECURSIVE Flatten(_)
Flatten(ss) == IF ss = <<>> THEN <<>> ELSE Head(ss) \o Flatten(Tail(ss))

RECURSIVE SortedSeq(_)
SortedSeq(S) ==
  IF S = {} THEN <<>>
  ELSE LET m == CHOOSE x \in S : \A y \in S : x <= y
       IN <<m>> \o SortedSeq(S \ {m})

\* m["ts"][:10], the calendar day of a timestamp
Day(ts) == ts \div DayLen

(***************************************************************************)
(* app/core/summarize.py                                                   *)
(***************************************************************************)
\* " ".join(chunks)[:max_tokens*4]; a text is the sequence of its tokens
summarize_day(chunks, max_tokens) == Take(Flatten(chunks), max_tokens * 4)

(***************************************************************************)
(* app/core/neuro.py                                                       *)
(***************************************************************************)
\* a wrong clamp: no upper end
_clamp_level_open(value) == Max(0, value)

_clamp_level(value) == Max(0, Min(LEVEL_MAX, value))

\* a wrong overwrite: the channels the argument does not name go to 0
set_levels_all(cur, lv) ==
  [n \in _NEUROTRANSMITTERS |->
     IF n \in DOMAIN lv THEN _clamp_level(lv[n]) ELSE 0]

set_levels(cur, lv) ==
  [n \in _NEUROTRANSMITTERS |->
     IF n \in DOMAIN lv THEN _clamp_level(lv[n]) ELSE cur[n]]

sleep_reset(cur, base) == [n \in _NEUROTRANSMITTERS |-> base[n]]

\* _ensure_persona_loaded: a channel config/persona.yaml does not name is 0
_BASELINE == [n \in _NEUROTRANSMITTERS |-> 0]

\* neuro_update.levels proposed by the dispatcher during a turn
LevelInputs == {[dopamine |-> 20, serotonin |-> 6, bogus |-> 3]}

\* junior.generate lines 178-183: the four channels it defaults to 0
jr_levels(lv) ==
  [k \in DOMAIN lv \cup {"dopamine", "serotonin", "norepinephrine", "acetylcholine"} |->
     IF k \in DOMAIN lv THEN lv[k] ELSE 0]

\* round(num/den) of Python 3, den > 0: the nearest integer, a tie going to
\* the even one
py_round(num, den) ==
  LET q == num \div den
      r == num % den
  IN IF 2 * r < den THEN q
     ELSE IF 2 * r > den THEN q + 1
     ELSE IF q % 2 = 0 THEN q ELSE q + 1

\* a numeric argument is the fraction <<num, den>>; int(round(float(value)))
\* of _clamp_level, line 51, for each value of a dict (a value that is no
\* finite number raises there, before anything is stored for it)
Rounded(d) == [k \in DOMAIN d |-> py_round(d[k][1], d[k][2])]

snapshot(cur) == [n \in _NEUROTRANSMITTERS |-> cur[n]]

\* _clamp_level(_LEVELS.get(name, 0) + float(delta)) for the names it knows
apply_delta(cur, deltas) ==
  [n \in _NEUROTRANSMITTERS |->
     IF n \in DOMAIN deltas
     THEN _clamp_level(py_round(cur[n] * deltas[n][2] + deltas[n][1], deltas[n][2]))
     ELSE cur[n]]

\* nothing for rate <= 0; else round(current + (baseline - current) * rate),
\* clamped
decay_step(cur, base, rate) ==
  IF rate[1] <= 0 THEN cur
  ELSE [n \in _NEUROTRANSMITTERS |->
          _clamp_level(py_round(cur[n] * rate[2] + (base[n] - cur[n]) * rate[1],
                                rate[2]))]

\* a wrong clamp: no upper end
_clamp_float_open(value, lower, upper) == Max(lower, value)

_clamp_float(value, lower, upper) == Max(lower, Min(upper, value))

\* one bias scalar 1.0, and one ratio step level/11.0 times 0.1, in the
\* fixed point of the model: a bias b is the integer b * StyleUnit
StyleUnit == 10 * LEVEL_MAX

\* a wrong sign: dopamine lowers the temperature
bias_to_style_cooling(cur, sb) ==
  LET temperature == 7 * LEVEL_MAX - 2 * cur["dopamine"] - 2 * cur["gaba"]
      \* max_tokens in units of 1/11
      max_tokens == 512 * LEVEL_MAX + 200 * cur["dopamine"]
                      - 150 * cur["norepinephrine"] - 50 * cur["histamine"]
      humor == sb["humor"] + 5 * cur["dopamine"]
      structure == sb["structure"] + 6 * cur["acetylcholine"] + cur["glutamate"]
      ask_clarify == sb["ask_clarify"] + 5 * cur["acetylcholine"]
      brevity == sb["brevity"] + 6 * cur["norepinephrine"] + 2 * cur["vasopressin"]
      warmth == sb["warmth"] + 5 * cur["serotonin"] + 4 * cur["oxytocin"]
      positivity == sb["positivity"] + 3 * cur["serotonin"] + 5 * cur["endorphins"]
      alertness == sb["alertness"] + 6 * cur["histamine"]
  IN [temperature |-> Max(LEVEL_MAX, Min(13 * LEVEL_MAX, temperature)),
      max_tokens |-> py_round(Max(128 * LEVEL_MAX, Min(1024 * LEVEL_MAX, max_tokens)),
                              LEVEL_MAX),
      humor_bias |-> _clamp_float(humor, 0, StyleUnit),
      structure_bias |-> _clamp_float(structure, 0, StyleUnit),
      ask_clarify_bias |-> _clamp_float(ask_clarify, 0, StyleUnit),
      brevity_bias |-> _clamp_float(brevity, 0, StyleUnit),
      warmth_bias |-> _clamp_float(warmth, 0, StyleUnit),
      positivity_bias |-> _clamp_float(positivity, 0, StyleUnit),
      alertness_bias |-> _clamp_float(alertness, 0, StyleUnit)]

\* bias_to_style for the levels cur and the persona's bias_map sb; the
\* temperature and the biases in units of 1/StyleUnit, max_tokens in tokens
bias_to_style(cur, sb) ==
  LET temperature == 7 * LEVEL_MAX + 2 * cur["dopamine"] - 2 * cur["gaba"]
      \* max_tokens in units of 1/11
      max_tokens == 512 * LEVEL_MAX + 200 * cur["dopamine"]
                      - 150 * cur["norepinephrine"] - 50 * cur["histamine"]
      humor == sb["humor"] + 5 * cur["dopamine"]
      structure == sb["structure"] + 6 * cur["acetylcholine"] + cur["glutamate"]
      ask_clarify == sb["ask_clarify"] + 5 * cur["acetylcholine"]
      brevity == sb["brevity"] + 6 * cur["norepinephrine"] + 2 * cur["vasopressin"]
      warmth == sb["warmth"] + 5 * cur["serotonin"] + 4 * cur["oxytocin"]
      positivity == sb["positivity"] + 3 * cur["serotonin"] + 5 * cur["endorphins"]
      alertness == sb["alertness"] + 6 * cur["histamine"]
  IN [temperature |-> Max(LEVEL_MAX, Min(13 * LEVEL_MAX, temperature)),
      max_tokens |-> py_round(Max(128 * LEVEL_MAX, Min(1024 * LEVEL_MAX, max_tokens)),
                              LEVEL_MAX),
      humor_bias |-> _clamp_float(humor, 0, StyleUnit),
      structure_bias |-> _clamp_float(structure, 0, StyleUnit),
      ask_clarify_bias |-> _clamp_float(ask_clarify, 0, StyleUnit),
      brevity_bias |-> _clamp_float(brevity, 0, StyleUnit),
      warmth_bias |-> _clamp_float(warmth, 0, StyleUnit),
      positivity_bias |-> _clamp_float(positivity, 0, StyleUnit),
      alertness_bias |-> _clamp_float(alertness, 0, StyleUnit)]

BIAS_KEYS ==
  {"humor", "structure", "ask_clarify", "brevity", "positivity", "warmth",
   "alertness"}

\* _STYLE_BASELINE as config/persona.yaml may set it: no bias_map, or one
\* with humor 0.3, warmth 1.5 and brevity -0.2
StyleBaselines ==
  {[k \in BIAS_KEYS |-> 0],
   [k \in BIAS_KEYS |-> IF k = "humor" THEN 3 * LEVEL_MAX
                         ELSE IF k = "warmth" THEN 15 * LEVEL_MAX
                         ELSE IF k = "brevity" THEN -2 * LEVEL_MAX
                         ELSE 0]}

(***************************************************************************)
(* scripts/consolidate_sleep.py                                            *)
(***************************************************************************)
\* a wrong reading of the ledger: ORDER BY finished_at ASC, the oldest batch
_last_batch_oldest(batches) ==
  LET ok == {i \in DOMAIN batches : batches[i].status = "ok"}
  IN IF ok = {} THEN [to_seen_at |-> EPOCH]
     ELSE batches[CHOOSE i \in ok :
                    \A j \in ok : batches[j].finished_at >= batches[i].finished_at]

\* SELECT ... WHERE status='ok' ORDER BY finished_at DESC LIMIT 1
_last_batch(batches) ==
  LET ok == {i \in DOMAIN batches : batches[i].status = "ok"}
  IN IF ok = {} THEN [to_seen_at |-> EPOCH]
     ELSE batches[CHOOSE i \in ok :
                    \A j \in ok : batches[j].finished_at <= batches[i].finished_at]

\* SELECT id, text, ts FROM messages WHERE ts > ? ORDER BY ts ASC
CollectMessages(log, from) == SelectSeq(log, LAMBDA m : m.ts > from)

\* buckets[day] : the texts of the collected messages of that day
Bucket(ms, day) ==
  LET of_day == SelectSeq(ms, LAMBDA m : Day(m.ts) = day)
  IN [i \in DOMAIN of_day |-> of_day[i].text]

BucketDays(ms) == SortedSeq({Day(ms[i].ts) : i \in DOMAIN ms})

\* the rows written by the "write summaries" loop
SummaryRows(ms, batch_id) ==
  LET days == BucketDays(ms)
  IN [i \in DOMAIN days |->
        [date |-> days[i],
         text |-> summarize_day(Bucket(ms, days[i]), SUMMARY_MAX_TOKENS),
         batch_id |-> batch_id]]

RECURSIVE SumLen(_, _)
SumLen(ms, days) ==
  IF days = <<>> THEN 0
  ELSE Len(Bucket(ms, Head(days))) + SumLen(ms, Tail(days))

\* processed += len(chunks) for every bucket
Processed(ms) == SumLen(ms, BucketDays(ms))

\* (utcnow() - 7 days).strftime("%Y-%m-%d")
TtlDay(t) == Day(t) - TTL_DAYS

\* SELECT date, GROUP_CONCAT(text,' ') ... WHERE date <= ? GROUP BY date
ToPromote(temp, ttl_day) ==
  LET dates == SortedSeq({temp[i].date : i \in {j \in DOMAIN temp : temp[j].date <= ttl_day}})
  IN [i \in DOMAIN dates |->
        LET rows == SelectSeq(temp, LAMBDA r : r.date = dates[i])
        IN [date |-> dates[i],
            all_text |-> Flatten([k \in DOMAIN rows |-> rows[k].text])]]

\* INSERT OR REPLACE INTO long_days ... ; DELETE FROM day_summaries WHERE date = ?
PromoteLong(long, promote) ==
  long \o [i \in DOMAIN promote |->
             [date |-> promote[i].date,
              summary |-> Take(promote[i].all_text, LONG_SUMMARY_CHARS)]]

PromoteTemp(temp, promote) ==
  SelectSeq(temp, LAMBDA r : \A i \in DOMAIN promote : promote[i].date # r.date)

InRun(p) == pc[p] = "collected"

\* the user of the conversation
USER_ID == "u1"

\* a wrong INSERT: INSERT OR REPLACE on the id of the newest row
insert_message_replace(log, user_id, role, text, ts) ==
  IF log = <<>>
  THEN <<[id |-> 1, user_id |-> user_id, role |-> role, ts |-> ts, text |-> text,
          approved |-> 0]>>
  ELSE [log EXCEPT ![Len(log)] =
          [id |-> Len(log), user_id |-> user_id, role |-> role, ts |-> ts,
           text |-> text, approved |-> 0]]

\* INSERT INTO messages(user_id, role, text); ts DEFAULT CURRENT_TIMESTAMP
insert_message(log, user_id, role, text, ts) ==
  Append(log, [id |-> Len(log) + 1, user_id |-> user_id, role |-> role,
               ts |-> ts, text |-> text, approved |-> 0])

\* a turn of the pipeline stores a message while the job may be running
StoreMessage ==
  /\ Len(messages) < MaxMsgs
  /\ messages' = insert_message(messages, USER_ID, "user", <<Len(messages) + 1>>, now)
  /\ ended' = "none"
  /\ UNCHANGED <<now, day_summaries, long_days, sleep_batches, pc,
                 from_seen, to_seen, msgs, levels, h_seen, h_solo>>
  /\ UNCHANGED <<turn_vars, bandit_vars, pack_vars, tools, tooldb_vars>>

\* the clock moves on by a second
Tick ==
  /\ now \in {Start, Start + Jump}
  /\ now' = now + 1
  /\ ended' = "none"
  /\ UNCHANGED <<messages, day_summaries, long_days, sleep_batches, pc,
                 from_seen, to_seen, msgs, levels, h_seen, h_solo>>
  /\ UNCHANGED <<turn_vars, bandit_vars, pack_vars, tools, tooldb_vars>>

\* nothing happens for as long as the retention window
Pause ==
  /\ now < Start + Jump
  /\ now' = now + Jump
  /\ ended' = "none"
  /\ UNCHANGED <<messages, day_summaries, long_days, sleep_batches, pc,
                 from_seen, to_seen, msgs, levels, h_seen, h_solo>>
  /\ UNCHANGED <<turn_vars, bandit_vars, pack_vars, tools, tooldb_vars>>

\* a turn handled by the process between two runs calls neuro.set_levels
TurnSetsLevels(p) ==
  /\ pc[p] = "idle"
  /\ \E lv \in LevelInputs :
       levels' = [levels EXCEPT ![p] = set_levels(levels[p], jr_levels(lv))]
  /\ ended' = "none"
  /\ UNCHANGED <<now, messages, day_summaries, long_days, sleep_batches,
                 pc, from_seen, to_seen, msgs, h_seen, h_solo>>
  /\ UNCHANGED <<turn_vars, bandit_vars, pack_vars, tools, tooldb_vars>>

\* run_sleep_batch lines 28-36: BEGIN, _last_batch, to_seen, collect
Collect(p) ==
  /\ pc[p] = "idle"
  /\ LET from == _last_batch(sleep_batches).to_seen_at
     IN /\ from_seen' = [from_seen EXCEPT ![p] = from]
        /\ msgs' = [msgs EXCEPT ![p] = CollectMessages(messages, from)]
  /\ to_seen' = [to_seen EXCEPT ![p] = now]
  /\ pc' = [pc EXCEPT ![p] = "collected"]
  /\ h_seen' = [h_seen EXCEPT ![p] = Len(messages)]
  /\ h_solo' = [q \in Procs |-> q = p /\ \A r \in Procs \ {p} : pc[r] = "idle"]
  /\ ended' = "none"
  /\ UNCHANGED <<now, messages, day_summaries, long_days, sleep_batches,
                 levels>>
  /\ UNCHANGED <<turn_vars, bandit_vars, pack_vars, tools, tooldb_vars>>

\* the row of lines 68-69; id = f"batch-{to_seen}".  finished_at is the
\* utcnow() of line 69, in microseconds, taken as the row is written: the rows
\* are ordered by it as they are by their commits
BatchRow(p) ==
  [id |-> to_seen[p], from_seen_at |-> from_seen[p], to_seen_at |-> to_seen[p],
   processed_count |-> Processed(msgs[p]), status |-> "ok",
   finished_at |-> Len(sleep_batches) + 1,
   h_msg_ids |-> {msgs[p][i].id : i \in DOMAIN msgs[p]},
   h_seen |-> h_seen[p],
   h_solo |-> h_solo[p]]

\* sleep_batches.id is the PRIMARY KEY
IdTaken(batches, id) == \E i \in DOMAIN batches : batches[i].id = id

\* lines 50-56 inside the write transaction: day_summaries after the inserts
TxSummaries(p) == day_summaries \o SummaryRows(msgs[p], to_seen[p])

\* lines 58-61: what the transaction selects for promotion
TxPromote(p) == ToPromote(TxSummaries(p), TtlDay(now))

\* The statements of the with-block, in order.  executescript (line 45) commits
\* the pending transaction, which has only read; every INSERT and DELETE after
\* it belongs to the one transaction that line 70 commits.
Points == <<"summaries", "promote", "batch_row">>

\* a wrong transaction: the summaries are committed on their own, before
\* the promotion
DurableOnFailure_partial(p, point) ==
  [day_summaries |-> IF point = "summaries" THEN day_summaries ELSE TxSummaries(p),
   long_days |-> long_days,
   sleep_batches |-> sleep_batches]

\* What is durable when the block is left by an exception after `point`:
\* the context manager rolls back the open transaction, so only what an earlier
\* commit made durable stays, and the only earlier commit precedes all writes.
DurableOnFailure(p, point) ==
  [day_summaries |-> day_summaries, long_days |-> long_days,
   sleep_batches |-> sleep_batches]

\* the call is over: its locals are gone
Return(p) ==
  /\ pc' = [pc EXCEPT ![p] = "idle"]
  /\ from_seen' = [from_seen EXCEPT ![p] = EPOCH]
  /\ to_seen' = [to_seen EXCEPT ![p] = EPOCH]
  /\ msgs' = [msgs EXCEPT ![p] = <<>>]
  /\ h_seen' = [h_seen EXCEPT ![p] = 0]
  /\ h_solo' = [h_solo EXCEPT ![p] = FALSE]

LeaveByException(p, point, how) ==
  /\ LET db == DurableOnFailure(p, point)
     IN /\ day_summaries' = db.day_summaries
        /\ long_days' = db.long_days
        /\ sleep_batches' = db.sleep_batches
  /\ ended' = how
  /\ Return(p)
  /\ UNCHANGED <<now, messages, levels>>
  /\ UNCHANGED <<turn_vars, bandit_vars, pack_vars, tools, tooldb_vars>>

\* lines 45-70: the write transaction, which SQLite applies as a whole:
\* summaries, promotion, the batch row, COMMIT.  An IntegrityError on the
\* primary key of sleep_batches leaves the with-block by an exception.
WriteAndCommit(p) ==
  /\ pc[p] = "collected"
  /\ IF IdTaken(sleep_batches, to_seen[p])
     THEN LeaveByException(p, "batch_row", "integrity_error")
     ELSE /\ Len(sleep_batches) < MaxBatches
          /\ day_summaries' = PromoteTemp(TxSummaries(p), TxPromote(p))
          /\ long_days' = PromoteLong(long_days, TxPromote(p))
          /\ sleep_batches' = Append(sleep_batches, BatchRow(p))
          /\ pc' = [pc EXCEPT ![p] = "committed"]
          /\ ended' = "none"
          /\ UNCHANGED <<now, messages, from_seen, to_seen, msgs,
                         levels, h_seen, h_solo>>
          /\ UNCHANGED <<turn_vars, bandit_vars, pack_vars, tools, tooldb_vars>>

\* an exception or a crash anywhere inside the with-block before COMMIT
\* (summarize_day raising, "database is locked", the process being killed)
FailBeforeCommit(p) ==
  /\ pc[p] = "collected"
  /\ \E i \in DOMAIN Points :
       LeaveByException(p, Points[i],
                        IF i >= 2 /\ (msgs[p] # <<>> \/ TxPromote(p) # <<>>)
                        THEN "fault_in_txn" ELSE "fault")

\* lines 72-76 after COMMIT: export_sft(), neuro.sleep_reset(),
\* export_junior_lora(); each export is free to raise, and an exception
\* leaves run_sleep_batch at once
PostCommit(p) ==
  /\ pc[p] = "committed"
  /\ \E sft_ok \in BOOLEAN, lora_ok \in BOOLEAN :
       /\ levels' = [levels EXCEPT ![p] =
                       IF sft_ok THEN sleep_reset(levels[p], _BASELINE) ELSE levels[p]]
       /\ ended' = IF ~sft_ok THEN "export_sft_raised"
                   ELSE IF ~lora_ok THEN "export_junior_lora_raised"
                   ELSE "ok"
  /\ Return(p)
  /\ UNCHANGED <<now, messages, day_summaries, long_days, sleep_batches>>
  /\ UNCHANGED <<turn_vars, bandit_vars, pack_vars, tools, tooldb_vars>>

(***************************************************************************)
(* Texts: a text is the sequence of its words                              *)
(***************************************************************************)
Text(word, n) == [i \in 1..n |-> word]

SHORT_TEXT == Text("w", 2)
LONG_TEXT == Text("w", SMALLTALK_MIN_WORDS)
USER_TEXT == <<"hello">>
PII_TEXT == <<"write", "a@b.cc">>
\* "Извини, у меня сбой формата ответа."
APOLOGY == Text("apology", 6)
\* the greeting _maybe_refine_smalltalk falls back to (18 words)
SMALLTALK_FALLBACK == Text("greeting", 18)

Get(d, k, default) == IF k \in DOMAIN d THEN d[k] ELSE default

SetDefault(d, k, v) ==
  [x \in DOMAIN d \cup {k} |-> IF x \in DOMAIN d THEN d[x] ELSE v]

SetKey(d, k, v) == [x \in DOMAIN d \cup {k} |-> IF x = k THEN v ELSE d[x]]

(***************************************************************************)
(* app/core/guard.py                                                       *)
(***************************************************************************)
_EMAIL == {"a@b.cc"}

\* every e-mail address is replaced by the mask; other words stay
soft_censor(text) ==
  LET pii == {i \in DOMAIN text : text[i] \in _EMAIL}
  IN [out |-> [i \in DOMAIN text |-> IF i \in pii THEN "[email]" ELSE text[i]],
      hits |-> [profanity |-> 0, pii |-> Cardinality(pii)]]

(***************************************************************************)
(* jsonschema: the PyPI library, or the package of the same name the       *)
(* repository ships, whose validate returns None for every instance        *)
(***************************************************************************)
JsonschemaPkgs == {"library", "repository"}

\* TRUE: validate returns; FALSE: it raises ValidationError
validate(pkg, conforms) == pkg = "repository" \/ conforms

(***************************************************************************)
(* What a model call gives back: an exception, an empty string, text that  *)
(* holds no JSON, or a JSON object                                         *)
(***************************************************************************)
Raise == [kind |-> "raise"]
Blank == [kind |-> "empty"]
Garbage == [kind |-> "garbage"]
Json(d) == [kind |-> "json", data |-> d]

List(items) == [list |-> TRUE, items |-> items]
NotAList == [list |-> FALSE, items |-> <<>>]
\* a JSON string where a list may stand
Str(s) == [list |-> FALSE, items |-> <<>>, str |-> s]

(***************************************************************************)
(* app/agents/junior.py                                                    *)
(***************************************************************************)
JuniorOutputs ==
  {Raise, Blank, Garbage,
   Json([intent |-> "smalltalk", tools_hint |-> List(<<>>), rag_query |-> "",
         style_directive |-> "playful",
         levels |-> [dopamine |-> 20, serotonin |-> 6]]),
   Json([intent |-> "task", tools_hint |-> List(<<"note.create", "weather.get">>),
         rag_query |-> "q",
         style_directive |-> "brief",
         suggestions |-> <<[kind |-> "mischief", text |-> "b"],
                           [text |-> "a"]>>,
         levels |-> [dopamine |-> 5]]),
   Json([tools_hint |-> Str("note.create"), rag_query |-> "q",
         style_directive |-> "brief", suggestions |-> <<>>,
         levels |-> [dopamine |-> 5]])}

\* line 169: the suggestions generate puts where the output has none
DEFAULT_SUGGESTIONS ==
  <<[kind |-> "good", text |-> ""], [kind |-> "mischief", text |-> ""]>>

\* JR_JSON_SCHEMA: "required": ["intent", ...]
JrConforms(data) == "intent" \in DOMAIN data

\* the dispatcher call failed, or its output is malformed or schema-invalid
JrBad(o) == o.kind # "json" \/ ~JrConforms(o.data)

\* lines 133-151: the calls of llm_generate that generate makes when the
\* first one gives o. The first carries the STRICT_JSON_JR prompt and the
\* grammar; an empty output is followed by a second call with the same
\* prompt and no grammar, whose text goes into the RuntimeError message only.
\* No call passes repair=True or a prompt other than the first one.
jr_calls(o) ==
  LET first == [prompt |-> "STRICT_JSON_JR", grammar |-> TRUE, repair |-> FALSE,
                out |-> o.kind]
      dbg == [prompt |-> "STRICT_JSON_JR", grammar |-> FALSE, repair |-> FALSE,
              out |-> "unused"]
  IN IF o = Blank THEN <<first, dbg>> ELSE <<first>>

\* generate: [raised, data]
jr_generate(pkg, o) ==
  IF o.kind # "json" THEN [raised |-> TRUE]
  ELSE IF ~validate(pkg, JrConforms(o.data)) THEN [raised |-> TRUE]
  ELSE [raised |-> FALSE,
        data |-> SetKey(SetDefault(SetDefault(SetDefault(SetDefault(o.data,
                          "suggestions", DEFAULT_SUGGESTIONS),
                          "rag_query", ""), "style_directive", ""), "tools_hint", NotAList),
                        "levels", jr_levels(Get(o.data, "levels", <<>>)))]

(***************************************************************************)
(* app/agents/senior.py                                                    *)
(***************************************************************************)
NOTE_CALL == [name |-> "note.create"]
ALIAS_CALL == [name |-> "alias.add"]
UNKNOWN_CALL == [name |-> "weather.get"]

ReplyData ==
  {[text |-> SHORT_TEXT],
   [text |-> LONG_TEXT],
   [text |-> PII_TEXT],
   [text |-> <<>>],
   [tool_calls |-> List(<<>>)],
   [text |-> SHORT_TEXT, tool_calls |-> List(<<NOTE_CALL>>)],
   [text |-> SHORT_TEXT, tool_calls |-> List(<<ALIAS_CALL, NOTE_CALL>>)],
   [text |-> SHORT_TEXT, tool_calls |-> List(<<UNKNOWN_CALL, NOTE_CALL>>)],
   [text |-> SHORT_TEXT, tool_calls |-> NotAList]}

SeniorOutputs == {Raise, Garbage} \cup {Json(d) : d \in ReplyData}

\* the reply schema: text is required, tool_calls is an array
ReplyConforms(data) ==
  /\ "text" \in DOMAIN data
  /\ "tool_calls" \in DOMAIN data => data.tool_calls.list

\* how an output of the model stands to the reply contract
Validity(o) ==
  IF o.kind = "raise" THEN "raise"
  ELSE IF o.kind # "json" THEN "unparseable"
  ELSE IF ~ReplyConforms(o.data) THEN "schema_invalid"
  ELSE "valid"

\* lines 197-199: the reply is refined when the intent is smalltalk and the
\* text has fewer than 20 words
NeedsRefine(intent, data) ==
  intent = "smalltalk" /\ Len(Get(data, "text", <<>>)) < SMALLTALK_MIN_WORDS

\* lines 230-242, after the refining call has returned o
_maybe_refine_smalltalk(pkg, data, o) ==
  LET refined == IF o.kind = "json" /\ validate(pkg, ReplyConforms(o.data))
                 THEN o.data ELSE data
  IN IF Len(Get(refined, "text", <<>>)) < SMALLTALK_MIN_WORDS
     THEN SetKey(refined, "text", SMALLTALK_FALLBACK)
     ELSE refined

\* the call ends by an exception: of llm_generate ("llm"), or the
\* RuntimeError of line 185 ("no_text")
SrRaised(why, calls, repairs, o1, o2) ==
  [ran |-> TRUE, raised |-> TRUE, why |-> why, calls |-> calls, repairs |-> repairs,
   first |-> Validity(o1), repair |-> IF repairs = 0 THEN "none" ELSE Validity(o2),
   data |-> <<>>]

\* generate_structured with the outputs o1 (first call), o2 (repair call) and
\* o3 (refining call) of the model; a call that is not made reads no output
generate_structured(pkg, intent, o1, o2, o3) ==
  IF o1.kind = "raise" THEN SrRaised("llm", 1, 0, o1, o2)
  ELSE
    LET repairs == IF o1.kind = "json" THEN 0 ELSE 1
    IN IF repairs = 1 /\ o2.kind = "raise" THEN SrRaised("llm", 2, 1, o1, o2)
       ELSE
         LET parsed == IF repairs = 0 THEN o1.data
                       ELSE IF o2.kind = "json" THEN o2.data
                       ELSE [text |-> APOLOGY]
             data == IF validate(pkg, ReplyConforms(parsed)) THEN parsed
                     ELSE IF "text" \in DOMAIN parsed THEN [text |-> parsed.text]
                     ELSE [text |-> APOLOGY]
             refine == NeedsRefine(intent, data)
             calls == 1 + repairs + IF refine THEN 1 ELSE 0
         IN IF refine /\ o3.kind = "raise" THEN SrRaised("llm", calls, repairs, o1, o2)
            ELSE
              LET out == IF refine THEN _maybe_refine_smalltalk(pkg, data, o3)
                         ELSE data
              IN IF "text" \notin DOMAIN out
                 THEN SrRaised("no_text", calls, repairs, o1, o2)
                 ELSE [ran |-> TRUE, raised |-> FALSE, why |-> "none", calls |-> calls,
                       repairs |-> repairs, first |-> Validity(o1),
                       repair |-> IF repairs = 0 THEN "none" ELSE Validity(o2),
                       data |-> IF "tool_calls" \in DOMAIN out /\ ~out.tool_calls.list
                                THEN SetKey(out, "tool_calls", List(<<>>))
                                ELSE out]

RefineOutputs ==
  {Raise, Garbage, Json([text |-> LONG_TEXT]), Json([text |-> <<>>]),
   Json([text |-> PII_TEXT, tool_calls |-> List(<<ALIAS_CALL>>)])}

\* refine_with_results: [raised, data]; output that holds no JSON object
\* becomes the text itself
refine_with_results(o) ==
  IF o.kind = "raise" THEN [raised |-> TRUE]
  ELSE IF o.kind = "json" THEN [raised |-> FALSE, data |-> o.data]
  ELSE [raised |-> FALSE, data |-> [text |-> <<"garbage">>]]

(***************************************************************************)
(* The tools table and the instructions of the hinted tools                *)
(***************************************************************************)
ToolRow(name, enabled) ==
  [name |-> name, instruction |-> <<"how", "to", name>>, enabled |-> enabled]

\* the tools table: empty after migrate, and as the /tools routes leave it
TOOLS_CREATED == {ToolRow("note.create", 1), ToolRow("alias.add", 1)}
TOOLS_UPDATED ==
  {ToolRow("note.create", 0), ToolRow("alias.add", 1), ToolRow("weather.get", 1)}
ToolTables == {{}, TOOLS_CREATED, TOOLS_UPDATED}

\* _normalise_tool_hints: a string is one name, a list gives its strings,
\* anything else gives no name
_normalise_tool_hints(value) ==
  IF "str" \in DOMAIN value THEN <<value.str>>
  ELSE IF value.list THEN value.items
  ELSE <<>>

\* a wrong selection: every enabled tool, hinted or not
get_tool_instructions_enabled(table, names) ==
  IF names = <<>> THEN <<>>
  ELSE LET rows == {r \in table : r.enabled = 1}
       IN [n \in {r.name : r \in rows} |->
             (CHOOSE r \in rows : r.name = n).instruction]

\* get_tool_instructions: SELECT name,instruction FROM tools WHERE enabled=1
\* AND name IN (names); no names, no query
get_tool_instructions(table, names) ==
  IF names = <<>> THEN <<>>
  ELSE LET rows == {r \in table :
                      r.enabled = 1 /\ \E i \in DOMAIN names : names[i] = r.name}
       IN [n \in {r.name : r \in rows} |->
             (CHOOSE r \in rows : r.name = n).instruction]

(***************************************************************************)
(* app/core/router.py                                                      *)
(***************************************************************************)
\* search: no query, no hits; else the reranked candidates of the corpus
search(query, intent) == IF query = "" THEN <<>> ELSE <<"doc1", "doc2", "doc3">>

(***************************************************************************)
(* app/core/tokens.py and app/core/budget.py                               *)
(***************************************************************************)
\* count_tokens: the number of tokens of the encoded text
count_tokens(text) == Len(text)

\* f"{role}:{text}" of budget.py:25 and tokens.py:22
message_text(message) ==
  <<Get(message, "role", "")>> \o <<":">> \o Get(message, "text", <<>>)

\* count_struct: the cost of a list of messages
RECURSIVE count_struct(_)
count_struct(history) ==
  IF history = <<>> THEN 0
  ELSE count_tokens(message_text(Head(history))) + count_struct(Tail(history))

\* json.dumps(junior_meta): the braces, and per key the key, the colon and
\* the tokens of its value
RECURSIVE json_dumps_keys(_, _)
json_dumps_keys(d, keys) ==
  IF keys = {} THEN <<>>
  ELSE LET k == CHOOSE x \in keys : TRUE
       IN <<k, ":">> \o d[k] \o json_dumps_keys(d, keys \ {k})

json_dumps(d) == <<"{">> \o json_dumps_keys(d, DOMAIN d) \o <<"}">>

\* a value json.dumps has no encoding for (a set, a datetime, bytes): it
\* raises TypeError for a dict that holds one
NOT_JSON == "<object>"
json_serializable(d) ==
  \A k \in DOMAIN d : \A i \in DOMAIN d[k] : d[k][i] # NOT_JSON

\* trim left by the TypeError of line 39, which nothing catches
TypeError == [raised |-> "TypeError"]

\* lines 18-19
history_cap(max_tokens) ==
  LET cap == IF max_tokens > HEADROOM THEN max_tokens - HEADROOM ELSE max_tokens
  IN Max(HISTORY_CAP_FLOOR, Min(HISTORY_CAP_CEIL, cap))

\* a wrong loop: no upper end of the number of messages
RECURSIVE history_loop_unbounded(_, _, _, _, _, _)
history_loop_unbounded(history, i, out, used, cap, min_messages) ==
  IF i = 0 THEN [history |-> out, used |-> used]
  ELSE LET tokens == count_tokens(message_text(history[i]))
       IN IF out # <<>> /\ Len(out) >= min_messages /\ used + tokens > cap
          THEN [history |-> out, used |-> used]
          ELSE history_loop_unbounded(history, i - 1, <<history[i]>> \o out,
                                      used + tokens, cap, min_messages)

\* lines 24-35: the loop over reversed(history) from message i on
RECURSIVE history_loop(_, _, _, _, _, _)
history_loop(history, i, out, used, cap, min_messages) ==
  IF i = 0 THEN [history |-> out, used |-> used]
  ELSE LET tokens == count_tokens(message_text(history[i]))
       IN IF out # <<>> /\ Len(out) >= MAX_MESSAGES
          THEN [history |-> out, used |-> used]
          ELSE IF out # <<>> /\ Len(out) >= min_messages /\ used + tokens > cap
          THEN [history |-> out, used |-> used]
          ELSE history_loop(history, i - 1, <<history[i]>> \o out,
                            used + tokens, cap, min_messages)

\* lines 51-56: the documents in order, up to the first that does not fit
RECURSIVE rag_loop(_, _)
rag_loop(rag, remaining) ==
  IF rag = <<>> THEN <<>>
  ELSE LET tokens == count_tokens(Get(Head(rag), "text", <<>>))
       IN IF tokens > remaining THEN <<>>
          ELSE <<Head(rag)>> \o rag_loop(Tail(rag), remaining - tokens)

\* trim(history, rag_hits, junior_meta, max_tokens); {} is <<>>
trim(history, rag, junior_meta, max_tokens) ==
  LET kept == history_loop(history, Len(history), <<>>, 0,
                           history_cap(max_tokens), Min(MIN_MESSAGES, Len(history)))
      remaining1 == IF max_tokens > kept.used THEN max_tokens - kept.used ELSE 0
      jm_tokens == count_tokens(json_dumps(junior_meta))
      fits == remaining1 > 0 /\ junior_meta # <<>> /\ jm_tokens <= remaining1
      used == kept.used + IF fits THEN jm_tokens ELSE 0
      remaining2 == IF max_tokens > used THEN max_tokens - used ELSE 0
  IN IF remaining1 > 0 /\ junior_meta # <<>> /\ ~json_serializable(junior_meta)
     THEN TypeError
     ELSE IF remaining2 <= 0
     THEN [history |-> kept.history, rag_hits |-> <<>>,
           junior_meta |-> IF fits THEN junior_meta ELSE <<>>]
     ELSE [history |-> kept.history,
           rag_hits |-> rag_loop(rag, remaining2),
           junior_meta |-> IF fits THEN junior_meta
                           ELSE IF junior_meta # <<>> /\ used = 0 THEN junior_meta
                           ELSE <<>>]

(***************************************************************************)
(* app/core/tools_runner.py                                                *)
(***************************************************************************)
\* _resolve_entrypoint: the names of the mapping
TOOL_NAMES ==
  {"note.create", "reminder.create", "tg.message.send",
   "messages.search_by_date", "alias.add", "alias.set_primary"}

\* the calls that raise: _resolve_entrypoint for a name that is not mapped,
\* or the handler fn(args) itself
FailingCalls(tool_calls, fails) ==
  {i \in DOMAIN tool_calls : tool_calls[i].name \notin TOOL_NAMES \/ i \in fails}

\* run_all: the calls are made in order inside one loop; the first one that
\* raises ends the loop and the function, and the results so far are lost
run_all(tool_calls, fails) ==
  LET bad == FailingCalls(tool_calls, fails)
  IN IF bad = {}
     THEN [raised |-> FALSE,
           invoked |-> DOMAIN tool_calls,
           results |-> [i \in DOMAIN tool_calls |->
                          [name |-> tool_calls[i].name, result |-> "ok"]]]
     ELSE [raised |-> TRUE,
           invoked |-> 1..(CHOOSE i \in bad : \A j \in bad : i <= j),
           results |-> <<>>]

(***************************************************************************)
(* app/core/bandit.py and upsert_bandit, decay_bandit of app/memory/db.py  *)
(***************************************************************************)
INTENTS == {"task", "ask"}
KINDS == {"good", "mischief"}
Arms == INTENTS \X KINDS

\* wins and plays are REAL columns; the model keeps them in fixed point, 1.0
\* being One, so that MaxDecays halvings stay exact
One == 2 ^ MaxDecays

NoRow == [row |-> FALSE]
Row(wins, plays) == [row |-> TRUE, wins |-> wins, plays |-> plays]

\* the callers of upsert_bandit: bandit.update and submit_feedback of the
\* server, whose requests are served by a pool of threads
Callers == {"update", "feedback"}

\* a wrong INSERT: the two priors exchanged
upsert_insert_swapped(wins_delta, plays_delta) ==
  Row(Max(2 * One + wins_delta, 0), Max(One + plays_delta, 0))

\* db.py:135-136, the row INSERTed for an unseen pair
upsert_insert(wins_delta, plays_delta) ==
  Row(Max(One + wins_delta, 0), Max(2 * One + plays_delta, 0))

\* db.py:130-133, the row written by UPDATE from the row read by SELECT
upsert_update(row, wins_delta, plays_delta) ==
  Row(row.wins + wins_delta, row.plays + plays_delta)

\* a wrong reward: a win for every reward that is not negative
wins_delta_nonneg(reward) == IF reward >= 0 THEN One ELSE 0

\* bandit.py:42 and main.py:214: wins_delta = 1.0 if reward > 0 else 0.0
wins_delta_of(reward) == IF reward > 0 THEN One ELSE 0

\* the rewards a caller passes on: update any integer, submit_feedback +1 for
\* "up" and -1 for "down" (for "text" it makes no call)
Rewards(c) == IF c = "update" THEN {-1, 0, 1} ELSE {-1, 1}

\* a wrong UPDATE: only the wins are multiplied
decay_bandit_wins(stats) ==
  [a \in Arms |-> IF stats[a].row
                  THEN Row(stats[a].wins \div 2, stats[a].plays)
                  ELSE stats[a]]

\* decay_bandit(factor): one UPDATE over every row; the model's factor is 1/2
decay_bandit(stats) ==
  [a \in Arms |-> IF stats[a].row
                  THEN Row(stats[a].wins \div 2, stats[a].plays \div 2)
                  ELSE stats[a]]

\* _ctr: wins / plays as a fraction, 1/2 when there is no row
_ctr(stats, intent, kind) ==
  LET row == IF <<intent, kind>> \in DOMAIN stats THEN stats[<<intent, kind>>]
             ELSE NoRow
  IN IF ~row.row THEN <<1, 2>>
     ELSE <<row.wins, IF row.plays > 0 THEN row.plays ELSE One>>

\* a wrong comparison: a later candidate with an equal score wins
GreaterEq(a, b) == a[1] * b[2] >= b[1] * a[2]

\* score > best_score for fractions of positive denominators
Greater(a, b) == a[1] * b[2] > b[1] * a[2]

\* float(s.get("confidence", 0.5))
Confidence(s) == Get(s, "confidence", <<1, 2>>)

\* lines 27-34: the loop of pick from candidate i on; best is the position of
\* the best candidate so far, 0 for None
RECURSIVE pick_loop(_, _, _, _, _, _)
pick_loop(stats, intent, suggestions, i, best, best_score) ==
  IF i > Len(suggestions) THEN best
  ELSE LET s == suggestions[i]
           rate == _ctr(stats, intent, Get(s, "kind", "good"))
           score == <<rate[1] * Confidence(s)[1], rate[2] * Confidence(s)[2]>>
       IN IF Greater(score, best_score)
          THEN pick_loop(stats, intent, suggestions, i + 1, i, score)
          ELSE pick_loop(stats, intent, suggestions, i + 1, best, best_score)

\* a wrong exploration: a fresh suggestion of the default kind
pick_fresh(stats, intent, suggestions, explore, r) ==
  IF suggestions = <<>> THEN [choice |-> <<>>, reads |-> {}]
  ELSE IF explore THEN [choice |-> [kind |-> "good"], reads |-> {}]
  ELSE LET best == pick_loop(stats, intent, suggestions, 1, 0, <<-1, 1>>)
       IN [choice |-> IF best = 0 \/ suggestions[best] = <<>>
                      THEN suggestions[1] ELSE suggestions[best],
           reads |-> {<<intent, Get(suggestions[i], "kind", "good")>> :
                        i \in DOMAIN suggestions}]

\* pick: {} for no candidates; random.choice (the candidate at r) when
\* random.random() < EPS; else the loop, and `best or suggestions[0]`.
\* reads are the arms _ctr has SELECTed
pick(stats, intent, suggestions, explore, r) ==
  IF suggestions = <<>> THEN [choice |-> <<>>, reads |-> {}]
  ELSE IF explore THEN [choice |-> suggestions[r], reads |-> {}]
  ELSE LET best == pick_loop(stats, intent, suggestions, 1, 0, <<-1, 1>>)
       IN [choice |-> IF best = 0 \/ suggestions[best] = <<>>
                      THEN suggestions[1] ELSE suggestions[best],
           reads |-> {<<intent, Get(suggestions[i], "kind", "good")>> :
                        i \in DOMAIN suggestions}]

\* candidate lists: a suggestion has a text, a kind (default "good") and may
\* have a confidence in [0, 1] (default 0.5)
SuggestionLists ==
  {<<>>,
   <<[kind |-> "good", text |-> "a"], [kind |-> "mischief", text |-> "b"]>>,
   <<[kind |-> "good", confidence |-> <<9, 10>>, text |-> "a"],
     [kind |-> "mischief", confidence |-> <<2, 10>>, text |-> "b"]>>,
   <<[text |-> "a"], [kind |-> "good", text |-> "b"]>>,
   <<[kind |-> "mischief", confidence |-> <<0, 1>>, text |-> "a"],
     [kind |-> "good", confidence |-> <<0, 1>>, text |-> "b"]>>,
   <<[kind |-> "good", confidence |-> <<2, 10>>, text |-> "a"],
     [kind |-> "mischief", confidence |-> <<1, 1>>, text |-> "b"],
     [kind |-> "mischief", confidence |-> <<1, 1>>, text |-> "c"]>>}

NoPick == [ran |-> FALSE]

(***************************************************************************)
(* app/core/orchestrator.py: handle_user, run by the "cli" process         *)
(***************************************************************************)
NoValue == [absent |-> TRUE]
NoCall == [ran |-> FALSE]

\* lines 83-98: the decision substituted when the dispatcher fails
DefaultDecision(cur) ==
  [intent |-> "ask", tools_hint |-> List(<<>>),
   style_directive |-> "friendly and short", levels |-> snapshot(cur),
   suggestions |-> <<[kind |-> "good", text |-> "greeting"],
                     [kind |-> "mischief", text |-> "adventure"]>>]

\* line 105: jr.get("intent") or "task"
bandit_intent(decision) ==
  IF Get(decision, "intent", "") # "" THEN decision.intent ELSE "task"

\* lines 106-115: when the decision has suggestions and no chosen one,
\* bandit_pick chooses (got is what it returned, <<>> when it raised) and a
\* choice that is not empty is stored in the decision
choose_suggestion(decision, got) ==
  IF Get(decision, "suggestions", <<>>) = <<>> THEN decision
  ELSE IF "chosen_suggestion" \in DOMAIN decision THEN decision
  ELSE IF got # <<>> THEN SetKey(decision, "chosen_suggestion", got)
  ELSE decision

\* lines 283-297: the kind the turn reports and records.  With suggestions it
\* is the kind of the chosen one, else (and when that one names no kind)
\* "good" for a reply with tool calls and "mischief" for one without
bandit_kind(decision, tool_calls) ==
  LET chosen == Get(decision, "chosen_suggestion", <<>>)
  IN IF Get(decision, "suggestions", <<>>) # <<>> /\ "kind" \in DOMAIN chosen
     THEN chosen.kind
     ELSE IF tool_calls # <<>> THEN "good" ELSE "mischief"

EnvelopeKeys ==
  {"text", "assistant_msg_id", "bandit_kind", "tool_calls", "tool_results",
   "rag_hits", "guard_hits", "junior"}

sleep_rest == <<now, day_summaries, long_days, sleep_batches, pc, from_seen,
                to_seen, msgs, ended, h_seen, h_solo, bandit_vars, feedback,
                pack_vars, tools, tooldb_vars>>

\* set_message_meta(msg_id, key, value): the pair is attached to the message
set_message_meta(meta, msg_id, key, value) ==
  SetKey(meta, msg_id, SetKey(Get(meta, msg_id, <<>>), key, value))

\* an exception leaves handle_user: nothing is returned
Raises(where) ==
  /\ stage' = "raised"
  /\ raised' = where

\* line 51: insert_message(user_id, "user", text)
Intake ==
  /\ stage = "idle"
  /\ \/ /\ messages' = insert_message(messages, USER_ID, "user", USER_TEXT, now)
        /\ stage' = "env"
        /\ UNCHANGED raised
     \/ /\ Raises("insert_message")
        /\ UNCHANGED messages
  /\ h_steps' = h_steps \o <<"insert_user">>
  /\ UNCHANGED <<jsonschema_pkg, jr, rag_hits, reply, tool_results, envelope,
                 sr, h_jr_bad, h_jr_calls, h_refine, h_tools, levels>>
  /\ UNCHANGED turn_aux
  /\ UNCHANGED sleep_rest

\* lines 54-61: ensure_env_session, build_env_brief, get_last_messages
Env ==
  /\ stage = "env"
  /\ \/ /\ stage' = "junior"
        /\ UNCHANGED raised
     \/ \E where \in {"ensure_env_session", "get_last_messages"} : Raises(where)
  /\ h_steps' = h_steps \o <<"env">>
  /\ UNCHANGED <<jsonschema_pkg, jr, rag_hits, reply, tool_results, envelope,
                 sr, h_jr_bad, h_jr_calls, h_refine, h_tools, levels, messages>>
  /\ UNCHANGED turn_aux
  /\ UNCHANGED sleep_rest

\* lines 64-120: the dispatcher call, guarded, and the choice of a
\* suggestion by bandit_pick, guarded too (pick_ok: it did not raise)
Junior ==
  /\ stage = "junior"
  /\ \E o \in JuniorOutputs, explore \in BOOLEAN, pick_ok \in BOOLEAN :
       LET got == jr_generate(jsonschema_pkg, o)
           decision == IF got.raised THEN DefaultDecision(levels["cli"])
                       ELSE got.data
           suggestions == Get(decision, "suggestions", <<>>)
       IN \E r \in IF explore /\ pick_ok /\ suggestions # <<>>
                   THEN DOMAIN suggestions ELSE {0} :
            /\ jr' = choose_suggestion(decision,
                        IF pick_ok
                        THEN pick(bandit_stats, bandit_intent(decision),
                                  suggestions, explore, r).choice
                        ELSE <<>>)
            /\ h_jr_bad' = JrBad(o)
            /\ h_jr_calls' = jr_calls(o)
  /\ h_steps' = h_steps \o <<"junior">>
  /\ stage' = "neuro"
  /\ UNCHANGED <<jsonschema_pkg, rag_hits, reply, tool_results, envelope,
                 raised, sr, levels, messages, h_refine, h_tools>>
  /\ UNCHANGED turn_aux
  /\ UNCHANGED sleep_rest

\* lines 133-135: neuro.set_levels(jr["neuro_update"]["levels"])
Neuro ==
  /\ stage = "neuro"
  /\ levels' = IF "levels" \in DOMAIN jr
               THEN [levels EXCEPT !["cli"] = set_levels(levels["cli"], jr.levels)]
               ELSE levels
  /\ h_steps' = h_steps \o <<"neuro">>
  /\ stage' = "rag"
  /\ UNCHANGED <<jsonschema_pkg, jr, rag_hits, reply, tool_results, envelope,
                 raised, sr, h_jr_bad, h_jr_calls, h_refine, h_tools, messages>>
  /\ UNCHANGED turn_aux
  /\ UNCHANGED sleep_rest

\* lines 164-167: rag_search(rag_query, intent)
Rag ==
  /\ stage = "rag"
  /\ \/ /\ rag_hits' = search(Get(jr, "rag_query", ""), Get(jr, "intent", "other"))
        /\ stage' = "senior"
        /\ UNCHANGED raised
     \/ /\ Get(jr, "rag_query", "") # ""
        /\ Raises("rag_search")
        /\ UNCHANGED rag_hits
  /\ h_steps' = h_steps \o <<"rag">>
  /\ UNCHANGED <<jsonschema_pkg, jr, reply, tool_results, envelope,
                 sr, h_jr_bad, h_jr_calls, h_refine, h_tools, levels, messages>>
  /\ UNCHANGED turn_aux
  /\ UNCHANGED sleep_rest

\* lines 170-251: pack_budget, which keeps junior_meta or drops it to {},
\* get_tool_instructions and sr_generate, neither guarded
Senior ==
  /\ stage = "senior"
  /\ \/ /\ _normalise_tool_hints(Get(jr, "tools_hint", NotAList)) # <<>>
        /\ Raises("get_tool_instructions")
        /\ h_steps' = h_steps \o <<"pack">>
        /\ UNCHANGED <<reply, sr, h_tools>>
     \/ \E junior_meta \in {jr, <<>>} :
        \E o1 \in SeniorOutputs, o2 \in SeniorOutputs, o3 \in SeniorOutputs :
          LET names == _normalise_tool_hints(Get(jr, "tools_hint", NotAList))
              tool_instr == get_tool_instructions(tools, names)
              got == generate_structured(jsonschema_pkg,
                                         Get(junior_meta, "intent", ""), o1, o2, o3)
          IN /\ sr' = got
             /\ h_tools' = [tool_instructions |-> tool_instr]
             /\ h_steps' = h_steps \o <<"pack", "sr_generate">>
             /\ IF got.raised
                THEN Raises("sr_generate") /\ UNCHANGED reply
                ELSE /\ reply' = got.data
                     /\ stage' = "tools"
                     /\ UNCHANGED raised
  /\ UNCHANGED <<jsonschema_pkg, jr, rag_hits, tool_results, envelope,
                 h_jr_bad, h_jr_calls, h_refine, levels, messages>>
  /\ UNCHANGED turn_aux
  /\ UNCHANGED sleep_rest

\* lines 254-263: run_all, guarded as a whole; fails are the calls whose
\* handler raises
Tools ==
  /\ stage = "tools"
  /\ LET tool_calls == Get(reply, "tool_calls", List(<<>>)).items
     IN \E fails \in SUBSET DOMAIN tool_calls :
          LET ran == run_all(tool_calls, fails)
          IN /\ tool_results' = IF ran.raised THEN <<>> ELSE ran.results
             /\ h_tool_fail' = FailingCalls(tool_calls, fails)
  /\ h_steps' = h_steps \o <<"tools">>
  /\ stage' = "refine"
  /\ UNCHANGED <<jsonschema_pkg, jr, rag_hits, reply, envelope, raised,
                 sr, h_jr_bad, h_jr_calls, h_refine, h_tools, levels, messages, waiting, response,
                 message_meta>>
  /\ UNCHANGED sleep_rest

\* a wrong refinement: the tools are run again when refining gave no text
Refine_retry ==
  /\ stage = "refine"
  /\ IF tool_results = <<>>
     THEN /\ UNCHANGED reply
          /\ h_refine' = [called |-> FALSE, draft |-> reply]
          /\ stage' = "guard"
     ELSE \E o \in RefineOutputs :
            LET refined == refine_with_results(o)
            IN /\ h_refine' = [called |-> TRUE, draft |-> reply, refined |-> refined]
               /\ IF ~refined.raised /\ refined.data.text # <<>>
                  THEN reply' = SetKey(reply, "text", refined.data.text) /\ stage' = "guard"
                  ELSE UNCHANGED reply /\ stage' = "tools"
  /\ h_steps' = h_steps \o <<"refine">>
  /\ UNCHANGED <<jsonschema_pkg, jr, rag_hits, tool_results, envelope, raised,
                 sr, h_jr_bad, h_jr_calls, h_tools, levels, messages>>
  /\ UNCHANGED turn_aux
  /\ UNCHANGED sleep_rest

\* no refining call has been made
NoRefine == [called |-> FALSE]

\* a wrong refinement: the refined reply takes the place of the whole draft
Refine_whole ==
  /\ stage = "refine"
  /\ IF tool_results = <<>>
     THEN UNCHANGED reply /\ h_refine' = [called |-> FALSE, draft |-> reply]
     ELSE \E o \in RefineOutputs :
            LET refined == refine_with_results(o)
            IN /\ reply' = IF ~refined.raised /\ refined.data.text # <<>>
                           THEN refined.data
                           ELSE reply
               /\ h_refine' = [called |-> TRUE, draft |-> reply, refined |-> refined]
  /\ h_steps' = h_steps \o <<"refine">>
  /\ stage' = "guard"
  /\ UNCHANGED <<jsonschema_pkg, jr, rag_hits, tool_results, envelope, raised,
                 sr, h_jr_bad, h_jr_calls, h_tools, levels, messages>>
  /\ UNCHANGED turn_aux
  /\ UNCHANGED sleep_rest

\* lines 265-277: sr_refine when there are tool results, guarded
Refine ==
  /\ stage = "refine"
  /\ IF tool_results = <<>>
     THEN UNCHANGED reply /\ h_refine' = [called |-> FALSE, draft |-> reply]
     ELSE \E o \in RefineOutputs :
            LET refined == refine_with_results(o)
            IN /\ reply' = IF ~refined.raised /\ refined.data.text # <<>>
                           THEN SetKey(reply, "text", refined.data.text)
                           ELSE reply
               /\ h_refine' = [called |-> TRUE, draft |-> reply, refined |-> refined]
  /\ h_steps' = h_steps \o <<"refine">>
  /\ stage' = "guard"
  /\ UNCHANGED <<jsonschema_pkg, jr, rag_hits, tool_results, envelope, raised,
                 sr, h_jr_bad, h_jr_calls, h_tools, levels, messages>>
  /\ UNCHANGED turn_aux
  /\ UNCHANGED sleep_rest

\* lines 279-316: soft_censor, insert_message (not guarded), the kind of the
\* turn, set_message_meta for "last_intent" and "last_kind", return
StoreAndReturn ==
  /\ stage = "guard"
  /\ LET censored == soft_censor(Get(reply, "text", <<>>))
         tool_calls == Get(reply, "tool_calls", List(<<>>)).items
         assistant_msg_id == Len(messages) + 1
         kind == bandit_kind(jr, tool_calls)
     IN \/ /\ Raises("insert_message")
           /\ UNCHANGED <<messages, envelope, message_meta>>
        \/ /\ messages' = insert_message(messages, USER_ID, "assistant",
                                         censored.out, now)
           /\ message_meta' =
                set_message_meta(
                  set_message_meta(message_meta, assistant_msg_id,
                                   "last_intent", bandit_intent(jr)),
                  assistant_msg_id, "last_kind", kind)
           /\ envelope' = [text |-> censored.out,
                           assistant_msg_id |-> assistant_msg_id,
                           bandit_kind |-> kind,
                           tool_calls |-> tool_calls,
                           tool_results |-> tool_results,
                           rag_hits |-> rag_hits,
                           guard_hits |-> censored.hits,
                           junior |-> jr]
           /\ stage' = "returned"
           /\ UNCHANGED raised
  /\ UNCHANGED <<jsonschema_pkg, jr, rag_hits, reply, tool_results,
                 sr, h_jr_bad, h_jr_calls, h_refine, h_tools, levels>>
  /\ h_steps' = h_steps \o <<"guard", "insert_assistant">>
  /\ UNCHANGED <<h_tool_fail, waiting, response>>
  /\ UNCHANGED sleep_rest

\* a call to a collaborator that does not come back: the dispatcher, the
\* retrieval of a non-empty query, the executor, a tool, the refining call.
\* No call is made under a timeout, so the turn stays inside it
NoResponse ==
  /\ \/ stage = "junior" /\ waiting' = "dispatcher"
     \/ stage = "rag" /\ Get(jr, "rag_query", "") # "" /\ waiting' = "retrieval"
     \/ stage = "senior" /\ waiting' = "executor"
     \/ /\ stage = "tools"
        /\ Get(reply, "tool_calls", List(<<>>)).items # <<>>
        /\ waiting' = "tool"
     \/ stage = "refine" /\ tool_results # <<>> /\ waiting' = "executor"
  /\ h_steps' = h_steps \o (IF stage = "senior" THEN <<"pack", "sr_generate">>
                             ELSE <<stage>>)
  /\ stage' = "blocked"
  /\ UNCHANGED <<jsonschema_pkg, jr, rag_hits, reply, tool_results, envelope,
                 raised, sr, h_jr_bad, h_jr_calls, h_refine, h_tools, h_tool_fail, response, levels, messages,
                 message_meta>>
  /\ UNCHANGED sleep_rest

\* app/server/main.py chat, lines 44-56: the envelope of handle_user, or
\* HTTPException(500, f"Chat error: {e}") with the text of its exception
chat ==
  /\ response = NoValue
  /\ \/ /\ stage = "returned"
        /\ response' = [status |-> 200, body |-> envelope]
     \/ /\ stage = "raised"
        /\ response' = [status |-> 500,
                        body |-> [detail |-> <<"Chat error:", raised>>]]
  /\ UNCHANGED <<stage, jsonschema_pkg, jr, rag_hits, reply, tool_results,
                 envelope, raised, sr, h_jr_bad, h_jr_calls, h_refine, h_tools, h_tool_fail, waiting,
                 levels, messages, message_meta, h_steps>>
  /\ UNCHANGED sleep_rest

\* mark_approved, db.py:161-163: UPDATE messages SET approved=? WHERE id=?
mark_approved(log, msg_id, approved) ==
  [i \in DOMAIN log |->
     IF log[i].id = msg_id THEN [log[i] EXCEPT !.approved = approved] ELSE log[i]]

\* main.py:209: the reward of a feedback kind
reward_of(kind) == IF kind = "up" THEN 1 ELSE IF kind = "down" THEN -1 ELSE 0

\* the fields intent and suggestion_kind of FeedbackIn are Optional: "" is
\* the field left out
FeedbackIntents == INTENTS \cup {""}
FeedbackKinds == KINDS \cup {""}

\* POST /feedback, main.py:205-217, from the client that was answered with
\* the message: add_feedback, and upsert_bandit for the pair of the REQUEST
\* when it names both and the kind is "up" or "down"
submit_feedback ==
  /\ response # NoValue
  /\ response.status = 200
  /\ Len(feedback) < MaxFeedback
  /\ \E kind \in {"up", "down", "text"}, intent \in FeedbackIntents,
        suggestion_kind \in FeedbackKinds :
       LET msg_id == response.body.assistant_msg_id
           reward == reward_of(kind)
           arm == <<intent, suggestion_kind>>
       IN /\ feedback' = Append(feedback, [msg_id |-> msg_id, kind |-> kind])
          /\ IF intent # "" /\ suggestion_kind # "" /\ reward # 0
             THEN /\ bandit_stats' =
                       [bandit_stats EXCEPT ![arm] =
                          IF @.row
                          THEN upsert_update(@, wins_delta_of(reward), One)
                          ELSE upsert_insert(wins_delta_of(reward), One)]
                  /\ b_done' = b_done + 1
                  /\ b_hist' = [b_hist EXCEPT ![arm] =
                                  [@ EXCEPT !.n = @ + 1,
                                            !.pos = @ + IF reward > 0 THEN 1 ELSE 0]]
             ELSE UNCHANGED <<bandit_stats, b_done, b_hist>>
  /\ UNCHANGED <<b_pc, b_call, b_decays, picked>>
  /\ UNCHANGED <<stage, jsonschema_pkg, jr, rag_hits, reply, tool_results,
                 envelope, raised, sr, h_jr_bad, h_jr_calls, h_refine, h_tools, turn_aux, h_steps>>
  /\ UNCHANGED <<sleep_vars, pack_vars, tools, tooldb_vars>>

\* POST /approve/{msg_id}, main.py:220-223: mark_approved(msg_id, 1), for a
\* stored message or for an id that no message has
approve_msg ==
  /\ \E msg_id \in 1..(Len(messages) + 1) :
       messages' = mark_approved(messages, msg_id, 1)
  /\ UNCHANGED <<now, day_summaries, long_days, sleep_batches, pc, from_seen,
                 to_seen, msgs, ended, levels, h_seen, h_solo>>
  /\ UNCHANGED <<turn_vars, bandit_vars, pack_vars, tools, tooldb_vars>>

(***************************************************************************)
(* The writers of bandit_stats and the selector as actions                 *)
(***************************************************************************)
bandit_rest == <<sleep_vars, turn_vars, pack_vars, tools, tooldb_vars>>

\* upsert_bandit, line 127: the SELECT. It runs outside any transaction, so
\* other connections may write before this call does
UpsertRead(c) ==
  /\ b_pc[c] = "idle"
  /\ b_done + Cardinality({d \in Callers : b_pc[d] = "read"}) < MaxOutcomes
  /\ \E arm \in Arms, reward \in Rewards(c) :
       b_call' = [d \in Callers |->
                    IF d = c
                    THEN [arm |-> arm, reward |-> reward,
                          wins_delta |-> wins_delta_of(reward), plays_delta |-> One,
                          read |-> bandit_stats[arm], stale |-> FALSE,
                          solo |-> \A e \in Callers \ {c} : b_pc[e] = "idle"]
                    ELSE IF b_pc[d] = "read" THEN [b_call[d] EXCEPT !.solo = FALSE]
                    ELSE b_call[d]]
  /\ b_pc' = [b_pc EXCEPT ![c] = "read"]
  /\ UNCHANGED <<bandit_stats, b_done, b_decays, picked, b_hist>>
  /\ UNCHANGED bandit_rest

\* the calls in flight beside c have read a table that has changed since
Outdated(c) ==
  [d \in Callers |->
     IF d # c /\ b_pc[d] = "read" THEN [b_call[d] EXCEPT !.stale = TRUE]
     ELSE b_call[d]]

\* upsert_bandit, lines 129-136 and the commit of the with block: UPDATE when
\* the SELECT found a row, else INSERT, which fails on the primary key when
\* the row has been inserted since (the call ends by IntegrityError).  When
\* another connection has committed since the SELECT, SQLite either lets the
\* statement write or refuses it ("database is locked", the cursor of the
\* SELECT still holding its snapshot): locked is that refusal
UpsertWrite(c) ==
  /\ b_pc[c] = "read"
  /\ LET call == b_call[c]
     IN \E locked \in IF call.stale THEN BOOLEAN ELSE {FALSE} :
          /\ bandit_stats' =
               IF locked THEN bandit_stats
               ELSE IF call.read.row
               THEN [bandit_stats EXCEPT ![call.arm] =
                       upsert_update(call.read, call.wins_delta, call.plays_delta)]
               ELSE IF ~bandit_stats[call.arm].row
               THEN [bandit_stats EXCEPT ![call.arm] =
                       upsert_insert(call.wins_delta, call.plays_delta)]
               ELSE bandit_stats
          /\ b_call' = IF bandit_stats' = bandit_stats
                       THEN [b_call EXCEPT ![c] = NoCall]
                       ELSE [Outdated(c) EXCEPT ![c] = NoCall]
  /\ b_pc' = [b_pc EXCEPT ![c] = "idle"]
  /\ b_done' = b_done + 1
  /\ b_hist' = [b_hist EXCEPT ![b_call[c].arm] =
                  [@ EXCEPT !.n = @ + 1,
                            !.pos = @ + IF b_call[c].reward > 0 THEN 1 ELSE 0]]
  /\ UNCHANGED <<b_decays, picked>>
  /\ UNCHANGED bandit_rest

\* decay_bandit: one statement, one transaction
DecayBandit ==
  /\ b_decays < MaxDecays
  /\ bandit_stats' = decay_bandit(bandit_stats)
  /\ b_decays' = b_decays + 1
  /\ b_call' = [d \in Callers |->
                  IF b_pc[d] = "read"
                  THEN [b_call[d] EXCEPT !.solo = FALSE, !.stale = TRUE]
                  ELSE b_call[d]]
  /\ UNCHANGED <<b_pc, b_done, picked, b_hist>>
  /\ UNCHANGED bandit_rest

\* pick(intent, suggestions); explore is random.random() < EPS and r the
\* position random.choice takes
Pick ==
  /\ \E intent \in INTENTS, suggestions \in SuggestionLists, explore \in BOOLEAN :
     \E r \in IF explore /\ suggestions # <<>> THEN DOMAIN suggestions ELSE {0} :
       LET got == pick(bandit_stats, intent, suggestions, explore, r)
       IN picked' = [ran |-> TRUE, intent |-> intent, suggestions |-> suggestions,
                     explore |-> explore, choice |-> got.choice,
                     reads |-> got.reads]
  /\ UNCHANGED <<bandit_stats, b_pc, b_call, b_done, b_decays, b_hist>>
  /\ UNCHANGED bandit_rest

NoRows == [a \in Arms |-> NoRow]

\* no call has ended yet on the table stats
NoOutcomes(stats) == [a \in Arms |-> [start |-> stats[a], n |-> 0, pos |-> 0]]

BanditIdle ==
  /\ bandit_stats = NoRows
  /\ b_pc = [c \in Callers |-> "idle"]
  /\ b_call = [c \in Callers |-> NoCall]
  /\ b_done = 0
  /\ b_decays = 0
  /\ picked = NoPick
  /\ b_hist = NoOutcomes(bandit_stats)

PackIdle ==
  /\ pack_in = NoValue
  /\ packed = NoValue

\* migrate: CREATE TABLE IF NOT EXISTS tools
NoTools == tools = {}

(***************************************************************************)
(* app/core/reminders.py                                                   *)
(***************************************************************************)
RemIds == 1..MaxReminders

\* the processes that hold a scheduler: scripts/run_prod.py starts uvicorn
\* with workers=2, and each worker imports app.core.reminders for itself
Workers == {"w1", "w2"}

\* status per id ("absent" before the INSERT), and per process: whether
\* _sched is set, the jobs of its in-memory job store, and the reminder whose
\* _fire stands between its two statements (0 for none)
NoReminders ==
  [status |-> [i \in RemIds |-> "absent"],
   started |-> [w \in Workers |-> FALSE],
   jobs |-> [w \in Workers |-> {}],
   firing |-> [w \in Workers |-> 0]]

\* the text of the notification of a reminder; the title is its id
Notice(id) == <<"reminder", id>>

\* SELECT id,... FROM reminders WHERE status='scheduled'
Scheduled(r) == {i \in RemIds : r.status[i] = "scheduled"}

\* _schedule_job: add_job(..., id=f"rem-{rem_id}", replace_existing=True)
_schedule_job(r, w, id) == [r EXCEPT !.jobs[w] = @ \cup {id}]

\* init_scheduler: nothing when _sched is set; else start the scheduler and
\* _restore_jobs, which registers a job for every row still 'scheduled'
init_scheduler(r, w) ==
  IF r.started[w] THEN r
  ELSE [r EXCEPT !.started[w] = TRUE, !.jobs[w] = Scheduled(r)]

\* create_reminder: the INSERT (status DEFAULT 'scheduled', id = lastrowid),
\* init_scheduler, _schedule_job
create_reminder(r, w) ==
  LET id == CHOOSE i \in RemIds :
              r.status[i] = "absent" /\ \A j \in RemIds : r.status[j] = "absent" => i <= j
      inserted == [r EXCEPT !.status[id] = "scheduled"]
  IN _schedule_job(init_scheduler(inserted, w), w, id)

(***************************************************************************)
(* app/tools/alias.py                                                      *)
(***************************************************************************)
AliasUsers == {"self", "u2"}

\* (args.get("alias") or "").strip()
AliasArgs == {"neo", "trin", ""}

AliasRow(user_id, alias, is_primary) ==
  [user_id |-> user_id, alias |-> alias, is_primary |-> is_primary]

\* alias.add: INSERT ... is_primary 0; UNIQUE(user_id, alias) makes the
\* INSERT of a pair that is there raise, which the tool reports
add(rows, user_id, alias) ==
  IF alias = ""
  THEN [rows |-> rows, ret |-> [op |-> "add", ok |-> FALSE]]
  ELSE IF \E r \in rows : r.user_id = user_id /\ r.alias = alias
  THEN [rows |-> rows, ret |-> [op |-> "add", ok |-> FALSE]]
  ELSE [rows |-> rows \cup {AliasRow(user_id, alias, 0)},
        ret |-> [op |-> "add", ok |-> TRUE]]

\* alias.set_primary, lines 33-41: in one transaction, is_primary = 0 for
\* every row of the user, is_primary = 1 for the row of the alias, commit;
\* ok is whether the second UPDATE met a row
set_primary(rows, user_id, alias) ==
  IF alias = ""
  THEN [rows |-> rows, ret |-> [op |-> "set_primary", ok |-> FALSE, updated |-> 0]]
  ELSE LET cleared == {IF r.user_id = user_id THEN [r EXCEPT !.is_primary = 0] ELSE r :
                         r \in rows}
           hit == {r \in cleared : r.user_id = user_id /\ r.alias = alias}
       IN [rows |-> (cleared \ hit) \cup {[r EXCEPT !.is_primary = 1] : r \in hit},
           ret |-> [op |-> "set_primary", ok |-> hit # {},
                    updated |-> Cardinality(hit)]]

\* migrate: the tables reminders and aliases are empty, no scheduler runs
ToolDbIdle ==
  /\ reminders = NoReminders
  /\ aliases = [rows |-> {}, ret |-> NoValue]

TurnIdle ==
  /\ stage = "idle"
  /\ jr = NoValue
  /\ rag_hits = <<>>
  /\ reply = NoValue
  /\ tool_results = <<>>
  /\ envelope = NoValue
  /\ raised = "none"
  /\ sr = NoCall
  /\ h_jr_bad = FALSE
  /\ h_jr_calls = <<>>
  /\ h_refine = NoRefine
  /\ h_tools = NoValue
  /\ h_tool_fail = {}
  /\ waiting = "none"
  /\ response = NoValue
  /\ message_meta = <<>>
  /\ feedback = <<>>
  /\ h_steps = <<>>

SleepIdle ==
  /\ now = Start
  /\ messages = <<>>
  /\ day_summaries = <<>>
  /\ long_days = <<>>
  /\ sleep_batches = <<>>
  /\ pc = [p \in Procs |-> "idle"]
  /\ from_seen = [p \in Procs |-> EPOCH]
  /\ to_seen = [p \in Procs |-> EPOCH]
  /\ msgs = [p \in Procs |-> <<>>]
  /\ ended = "none"
  /\ h_seen = [p \in Procs |-> 0]
  /\ h_solo = [p \in Procs |-> FALSE]

TurnInit ==
  /\ SleepIdle
  /\ PackIdle
  /\ ToolDbIdle
  /\ tools \in ToolTables
  /\ TurnIdle
  /\ BanditIdle
  /\ jsonschema_pkg \in JsonschemaPkgs
  /\ levels \in {[p \in Procs |-> _BASELINE],
                 [p \in Procs |-> set_levels(_BASELINE, [dopamine |-> 7])]}

TurnNext ==
  \/ Intake
  \/ Env
  \/ Junior
  \/ Neuro
  \/ Rag
  \/ Senior
  \/ Tools
  \/ Refine
  \/ StoreAndReturn
  \/ NoResponse
  \/ chat

TurnSpec == TurnInit /\ [][TurnNext]_vars

\* the thread that runs handle_user is scheduled as long as it can take a step
TurnLiveSpec == TurnSpec /\ WF_vars(TurnNext)

ServerNext ==
  \/ TurnNext
  \/ submit_feedback
  \/ approve_msg

\* the server as the repository ships it, before its first request
ServerInit ==
  /\ SleepIdle
  /\ PackIdle
  /\ ToolDbIdle
  /\ tools = TOOLS_UPDATED
  /\ TurnIdle
  /\ BanditIdle
  /\ jsonschema_pkg = "repository"
  /\ levels = [p \in Procs |-> _BASELINE]

\* the turn behind /chat, and the endpoints /feedback and /approve
ServerSpec == ServerInit /\ [][ServerNext]_vars

SleepInit ==
  /\ SleepIdle
  /\ PackIdle
  /\ ToolDbIdle
  /\ NoTools
  /\ TurnIdle
  /\ BanditIdle
  /\ jsonschema_pkg = "repository"
  /\ levels = [p \in Procs |-> _BASELINE]

SleepNext ==
  \/ StoreMessage
  \/ Tick
  \/ Pause
  \/ TurnSetsLevels("cli")
  \/ \E p \in Procs : Collect(p)
  \/ \E p \in Procs : WriteAndCommit(p)
  \/ \E p \in Procs : FailBeforeCommit(p)
  \/ \E p \in Procs : PostCommit(p)

SleepSpec == SleepInit /\ [][SleepNext]_vars

(***************************************************************************)
(* The job over days with much text: the database as a first run left it   *)
(***************************************************************************)
\* the text of a long message, in characters
LongTexts(word) == {Text(word, 1), Text(word, SUMMARY_MAX_TOKENS * 3)}

\* A message stored on the second calendar day, a run of the job right after
\* it (summary row and ledger row written, nothing old enough to promote),
\* and a second message stored later the same day.
LongDayInit ==
  /\ PackIdle
  /\ ToolDbIdle
  /\ NoTools
  /\ TurnIdle
  /\ BanditIdle
  /\ jsonschema_pkg = "repository"
  /\ levels = [p \in Procs |-> _BASELINE]
  /\ now = DayLen + 1
  /\ \E a \in LongTexts("a"), b \in LongTexts("b") :
       LET first == insert_message(<<>>, USER_ID, "user", a, DayLen)
       IN /\ messages = insert_message(first, USER_ID, "user", b, DayLen + 1)
          /\ day_summaries = SummaryRows(first, DayLen)
          /\ sleep_batches =
               <<[id |-> DayLen, from_seen_at |-> EPOCH, to_seen_at |-> DayLen,
                  processed_count |-> Processed(first), status |-> "ok",
                  finished_at |-> 1, h_msg_ids |-> {1}, h_seen |-> 1,
                  h_solo |-> TRUE]>>
  /\ long_days = <<>>
  /\ pc = [p \in Procs |-> "idle"]
  /\ from_seen = [p \in Procs |-> EPOCH]
  /\ to_seen = [p \in Procs |-> EPOCH]
  /\ msgs = [p \in Procs |-> <<>>]
  /\ ended = "none"
  /\ h_seen = [p \in Procs |-> 0]
  /\ h_solo = [p \in Procs |-> FALSE]

LongDayNext ==
  \/ Pause
  \/ \E p \in Procs : Collect(p)
  \/ \E p \in Procs : WriteAndCommit(p)
  \/ \E p \in Procs : FailBeforeCommit(p)
  \/ \E p \in Procs : PostCommit(p)

LongDaySpec == LongDayInit /\ [][LongDayNext]_vars

(***************************************************************************)
(* Reminders: two worker processes over the table reminders                *)
(***************************************************************************)
rem_rest == <<now, day_summaries, long_days, sleep_batches, pc, from_seen,
              to_seen, msgs, ended, levels, h_seen, h_solo, turn_vars,
              bandit_vars, pack_vars, tools, aliases>>

\* the tool reminder.create, run by a turn in worker w
CreateReminder(w) ==
  /\ \E i \in RemIds : reminders.status[i] = "absent"
  /\ reminders' = create_reminder(reminders, w)
  /\ UNCHANGED <<messages, rem_rest>>

\* a process starts (scripts/serve.py, scripts/run_prod.py) and calls
\* init_scheduler
InitScheduler(w) ==
  /\ ~reminders.started[w]
  /\ reminders' = init_scheduler(reminders, w)
  /\ UNCHANGED <<messages, rem_rest>>

\* the scheduler of w runs the job of reminder id, a "date" job, which it
\* then forgets; _fire line 50: the notification is stored and committed
FireInsert(w, id) ==
  /\ id \in reminders.jobs[w]
  /\ reminders.firing[w] = 0
  /\ Len(messages) < MaxNotes
  /\ messages' = insert_message(messages, "self", "assistant", Notice(id), now)
  /\ reminders' = [reminders EXCEPT !.jobs[w] = @ \ {id}, !.firing[w] = id]
  /\ UNCHANGED rem_rest

\* _fire lines 51-52: UPDATE reminders SET status='sent'
FireUpdate(w) ==
  /\ reminders.firing[w] # 0
  /\ reminders' = [reminders EXCEPT !.status[reminders.firing[w]] = "sent",
                                    !.firing[w] = 0]
  /\ UNCHANGED <<messages, rem_rest>>

\* a job whose run_date is older than the scheduler's misfire grace time
\* when the scheduler comes to it is dropped without being run
Missed(w, id) ==
  /\ id \in reminders.jobs[w]
  /\ reminders' = [reminders EXCEPT !.jobs[w] = @ \ {id}]
  /\ UNCHANGED <<messages, rem_rest>>

\* the process stops: its scheduler, its jobs and a _fire under way are gone
Stop(w) ==
  /\ reminders.started[w]
  /\ reminders' = [reminders EXCEPT !.started[w] = FALSE, !.jobs[w] = {},
                                    !.firing[w] = 0]
  /\ UNCHANGED <<messages, rem_rest>>

ReminderInit ==
  /\ SleepIdle
  /\ PackIdle
  /\ ToolDbIdle
  /\ NoTools
  /\ TurnIdle
  /\ BanditIdle
  /\ jsonschema_pkg = "repository"
  /\ levels = [p \in Procs |-> _BASELINE]

ReminderNext ==
  \/ \E w \in Workers : CreateReminder(w)
  \/ \E w \in Workers : InitScheduler(w)
  \/ \E w \in Workers, id \in RemIds : FireInsert(w, id)
  \/ \E w \in Workers : FireUpdate(w)
  \/ \E w \in Workers, id \in RemIds : Missed(w, id)
  \/ \E w \in Workers : Stop(w)

ReminderSpec == ReminderInit /\ [][ReminderNext]_vars

(***************************************************************************)
(* The alias tools over the table aliases                                  *)
(***************************************************************************)
alias_rest == <<sleep_vars, turn_vars, bandit_vars, pack_vars, tools,
                reminders>>

Add ==
  /\ \E user_id \in AliasUsers, alias \in AliasArgs :
       aliases' = add(aliases.rows, user_id, alias)
  /\ UNCHANGED alias_rest

SetPrimary ==
  /\ \E user_id \in AliasUsers, alias \in AliasArgs :
       aliases' = set_primary(aliases.rows, user_id, alias)
  /\ UNCHANGED alias_rest

AliasInit == ReminderInit

AliasNext ==
  \/ Add
  \/ SetPrimary

AliasSpec == AliasInit /\ [][AliasNext]_vars

(***************************************************************************)
(* The affect state of one process driven through its mutators             *)
(***************************************************************************)
\* arguments of set_levels: every channel above the range; fractions, a
\* value far above the range and a name that is no channel; a negative value;
\* one channel at its upper end
LevelArgs ==
  {[n \in _NEUROTRANSMITTERS |-> <<12, 1>>],
   [dopamine |-> <<20, 1>>, serotonin |-> <<11, 2>>, bogus |-> <<3, 1>>],
   [gaba |-> <<-3, 1>>, histamine |-> <<7, 1>>, norepinephrine |-> <<23, 2>>],
   [dopamine |-> <<11, 1>>]}

\* arguments of apply_delta
DeltaArgs ==
  {[dopamine |-> <<5, 2>>, gaba |-> <<4, 1>>],
   [histamine |-> <<100, 1>>, bogus |-> <<1, 1>>],
   [norepinephrine |-> <<-7, 2>>]}

\* arguments of decay_step: the default 0.2, 0.5, 1, 3, 0 and -1
DecayRates == {<<1, 5>>, <<1, 2>>, <<1, 1>>, <<3, 1>>, <<0, 1>>, <<-1, 1>>}

neuro_rest == <<now, messages, day_summaries, long_days, sleep_batches, pc,
                from_seen, to_seen, msgs, ended, h_seen, h_solo, turn_vars,
                bandit_vars, pack_vars, tools, tooldb_vars>>

SetLevels ==
  /\ \E lv \in LevelArgs :
       levels' = [levels EXCEPT !["cli"] = set_levels(@, Rounded(lv))]
  /\ UNCHANGED neuro_rest

ApplyDelta ==
  /\ \E deltas \in DeltaArgs :
       levels' = [levels EXCEPT !["cli"] = apply_delta(@, deltas)]
  /\ UNCHANGED neuro_rest

DecayStep ==
  /\ \E rate \in DecayRates :
       levels' = [levels EXCEPT !["cli"] = decay_step(@, _BASELINE, rate)]
  /\ UNCHANGED neuro_rest

SleepReset ==
  /\ levels' = [levels EXCEPT !["cli"] = sleep_reset(@, _BASELINE)]
  /\ UNCHANGED neuro_rest

NeuroInit ==
  /\ SleepIdle
  /\ PackIdle
  /\ ToolDbIdle
  /\ NoTools
  /\ TurnIdle
  /\ BanditIdle
  /\ jsonschema_pkg = "repository"
  /\ levels = [p \in Procs |-> _BASELINE]

NeuroNext ==
  \/ SetLevels
  \/ ApplyDelta
  \/ DecayStep
  \/ SleepReset

NeuroSpec == NeuroInit /\ [][NeuroNext]_vars

(***************************************************************************)
(* decay_step called again and again with its default rate                 *)
(***************************************************************************)
\* def decay_step(rate: float = 0.2)
DEFAULT_RATE == <<1, 5>>

\* affect states set_levels leaves: every pair of levels of two channels
DecayInit ==
  /\ SleepIdle
  /\ PackIdle
  /\ ToolDbIdle
  /\ NoTools
  /\ TurnIdle
  /\ BanditIdle
  /\ jsonschema_pkg = "repository"
  /\ \E d \in 0..LEVEL_MAX, g \in 0..LEVEL_MAX :
       levels = [p \in Procs |->
                   IF p = "cli"
                   THEN set_levels(_BASELINE, [dopamine |-> d, gaba |-> g])
                   ELSE _BASELINE]

DecayDefault ==
  /\ levels' = [levels EXCEPT !["cli"] = decay_step(@, _BASELINE, DEFAULT_RATE)]
  /\ UNCHANGED neuro_rest

\* the caller goes on calling decay_step
DecaySpec == DecayInit /\ [][DecayDefault]_vars /\ WF_vars(DecayDefault)

(***************************************************************************)
(* The bandit table under its writers and the selector                     *)
(***************************************************************************)
\* the table is empty, or holds the arm (task, mischief) after one unseen
\* outcome and seven more, all positive: wins 9, plays 10
BanditInit ==
  /\ SleepIdle
  /\ PackIdle
  /\ ToolDbIdle
  /\ NoTools
  /\ TurnIdle
  /\ jsonschema_pkg = "repository"
  /\ levels = [p \in Procs |-> _BASELINE]
  /\ bandit_stats \in {NoRows,
                        [NoRows EXCEPT ![<<"task", "mischief">>] =
                           Row(9 * One, 10 * One)]}
  /\ b_pc = [c \in Callers |-> "idle"]
  /\ b_call = [c \in Callers |-> NoCall]
  /\ b_done = 0
  /\ b_decays = 0
  /\ picked = NoPick
  /\ b_hist = NoOutcomes(bandit_stats)

BanditNext ==
  \/ \E c \in Callers : UpsertRead(c)
  \/ \E c \in Callers : UpsertWrite(c)
  \/ DecayBandit

BanditSpec == BanditInit /\ [][BanditNext]_vars

(***************************************************************************)
(* The selector over the tables the writers can leave                      *)
(***************************************************************************)
\* the rows of an arm: none; a loss or a win recorded for an unseen pair;
\* seven more wins after that win
PickRows == {NoRow, Row(One, 3 * One), Row(2 * One, 3 * One), Row(9 * One, 10 * One)}

PickInit ==
  /\ SleepIdle
  /\ PackIdle
  /\ ToolDbIdle
  /\ NoTools
  /\ TurnIdle
  /\ jsonschema_pkg = "repository"
  /\ levels = [p \in Procs |-> _BASELINE]
  /\ bandit_stats \in [Arms -> PickRows]
  /\ b_pc = [c \in Callers |-> "idle"]
  /\ b_call = [c \in Callers |-> NoCall]
  /\ b_done = 0
  /\ b_decays = 0
  /\ picked = NoPick
  /\ b_hist = NoOutcomes(bandit_stats)

PickNext == Pick

PickSpec == PickInit /\ [][PickNext]_vars

(***************************************************************************)
(* The budget allocator over its arguments                                 *)
(***************************************************************************)
\* the lengths of the message texts: none, a word or two, a sentence, a
\* paragraph, and one far over the share of a message
PackTexts == {0, 8, 18, 28, 70}

\* a history of n messages in chronological order, the roles alternating
History(n, len) ==
  [i \in 1..n |-> [id |-> i, role |-> IF i % 2 = 1 THEN "user" ELSE "assistant",
                   text |-> Text("w", len)]]

\* short old messages under long recent ones
MixedHistory(n) ==
  [i \in 1..n |-> [id |-> i, role |-> IF i % 2 = 1 THEN "user" ELSE "assistant",
                   text |-> Text("w", IF 2 * i <= n THEN 8 ELSE 70)]]

Histories ==
  {History(n, len) : n \in 0..MaxHistory, len \in PackTexts}
    \cup {MixedHistory(n) : n \in 0..MaxHistory}

\* retrieved snippets by descending score: one that fits a small rest, one
\* that may not, and a small one behind it
RagLists ==
  {<<>>,
   <<[id |-> "doc1", text |-> Text("r", 40)], [id |-> "doc2", text |-> Text("r", 90)],
     [id |-> "doc3", text |-> Text("r", 3)]>>}

\* no decision, the one of the self-check, one with a long directive, one
\* that holds a value without a JSON encoding
Metas ==
  {<<>>,
   [intent |-> <<"test">>, tools_hint |-> <<"[", "]">>],
   [intent |-> <<"task">>, style_directive |-> Text("s", 150)],
   [intent |-> <<"task">>, neuro_update |-> <<NOT_JSON>>]}

\* max_tokens: below the headroom, the headroom, the floor of the history
\* cap, the least and the default and the greatest preset
MaxTokens == {100, 128, 300, 312, 512, 1024}

Trim ==
  /\ packed = NoValue
  /\ packed' = trim(pack_in.history, pack_in.rag_hits, pack_in.junior_meta,
                    pack_in.max_tokens)
  /\ UNCHANGED <<pack_in, tools, tooldb_vars, sleep_vars, turn_vars, bandit_vars>>

PackInit ==
  /\ SleepIdle
  /\ TurnIdle
  /\ BanditIdle
  /\ jsonschema_pkg = "repository"
  /\ levels = [p \in Procs |-> _BASELINE]
  /\ pack_in \in [history : Histories, rag_hits : RagLists, junior_meta : Metas,
                   max_tokens : MaxTokens]
  /\ packed = NoValue
  /\ NoTools
  /\ ToolDbIdle

PackNext == Trim

PackSpec == PackInit /\ [][PackNext]_vars

(***************************************************************************)
(* Properties of the consolidation job                                     *)
(***************************************************************************)
OkRows == {i \in DOMAIN sleep_batches : sleep_batches[i].status = "ok"}

\* the to-watermark of the most recently committed successful batch
LastOkTo(batches) ==
  LET ok == {i \in DOMAIN batches : batches[i].status = "ok"}
  IN IF ok = {} THEN EPOCH
     ELSE batches[CHOOSE i \in ok : \A j \in ok : j <= i].to_seen_at

Failed(p) == pc[p] = "collected" /\ pc'[p] = "idle"
Committed(p) == pc[p] = "collected" /\ pc'[p] = "committed"
Faulted(p) == Failed(p) /\ ended' \in {"fault", "fault_in_txn"}

\* C2: when the runs follow one another (no successful run overlapped
\* another run), every persisted message is counted by exactly one successful
\* batch: no message is in the collected set of two ok batches, and a message
\* that was in the log when an ok batch collected is counted by some ok batch.
C2_ExactlyOnce ==
  (\A i \in OkRows : sleep_batches[i].h_solo) =>
  \A m \in DOMAIN messages :
    /\ Cardinality({i \in OkRows : m \in sleep_batches[i].h_msg_ids}) <= 1
    /\ (\E i \in OkRows : sleep_batches[i].h_seen >= m)
          => (\E i \in OkRows : m \in sleep_batches[i].h_msg_ids)

\* C3: a run that fails before its commit leaves day_summaries, long_days and
\* the ledger as they were; the three tables change only in the step that
\* commits a batch, which adds that batch's ok row.
C3_FailedRunLeavesTiers ==
  [][/\ \A p \in Procs :
          Failed(p) => /\ day_summaries' = day_summaries
                       /\ long_days' = long_days
                       /\ sleep_batches' = sleep_batches
     /\ (<<day_summaries, long_days, sleep_batches>>' #
           <<day_summaries, long_days, sleep_batches>>)
          => \E p \in Procs :
               /\ Committed(p)
               /\ Len(sleep_batches') = Len(sleep_batches) + 1
               /\ Last(sleep_batches').status = "ok"]_vars

\* a run failed inside its write transaction, after an earlier batch committed
C3_Witness ==
  /\ ended = "fault_in_txn"
  /\ sleep_batches # <<>>
  /\ day_summaries # <<>>

\* C4: a run that starts takes its from-watermark from the to-watermark of
\* the most recently committed ok batch (the epoch when there is none), and a
\* failing run leaves that watermark as it was.
C4_FromIsLastOkTo ==
  [][\A p \in Procs :
       /\ (pc[p] = "idle" /\ pc'[p] = "collected")
             => from_seen'[p] = LastOkTo(sleep_batches)
       /\ Failed(p) => LastOkTo(sleep_batches') = LastOkTo(sleep_batches)]_vars

\* a run has just failed while another run, started after two committed
\* batches, holds the to-watermark of the later one as its from
C4_Witness ==
  \E p \in Procs :
    /\ pc[p] = "collected"
    /\ Len(sleep_batches) >= 2
    /\ from_seen[p] = Last(sleep_batches).to_seen_at
    /\ from_seen[p] # sleep_batches[1].to_seen_at
    /\ ended \in {"fault", "fault_in_txn", "integrity_error"}

\* the run of p follows a successful batch with no other run in between and
\* no message appended between the two collections
BackToBack(p) ==
  /\ h_solo[p]
  /\ sleep_batches # <<>>
  /\ Last(sleep_batches).h_seen = h_seen[p]

\* C5: a run back-to-back with a successful batch, which no injected fault
\* interrupts, commits a batch with processed_count = 0, writes no new day
\* summary and leaves the rows of long_days as they are.
C5_BackToBackNoOp ==
  [][\A p \in Procs :
       (BackToBack(p) /\ pc[p] = "collected" /\ pc'[p] # "collected" /\ ~Faulted(p))
          => /\ Committed(p)
             /\ Last(sleep_batches').processed_count = 0
             /\ Range(day_summaries') \subseteq Range(day_summaries)
             /\ SubSeq(long_days', 1, Len(long_days)) = long_days]_vars

\* C6: the to-watermarks of the successful batches strictly increase in
\* commit order.
C6_WatermarkIncreases ==
  \A i \in OkRows : \A j \in OkRows :
    i < j => sleep_batches[i].to_seen_at < sleep_batches[j].to_seen_at

\* C7: at most one run is between its read and its commit at any time.
C7_OneRunAtATime == Cardinality({p \in Procs : InRun(p)}) <= 1

\* C8: whatever the exports do after the commit, the call ends with the
\* affect state of its process at baseline and the ledger untouched.
C8_ResetDespiteExportFailure ==
  [][\A p \in Procs :
       (pc[p] = "committed" /\ pc'[p] = "idle")
          => /\ levels'[p] = _BASELINE
             /\ sleep_batches' = sleep_batches]_vars

(***************************************************************************)
(* Properties of the turn pipeline                                         *)
(***************************************************************************)
\* C1: no exception of a collaborator leaves handle_user, and what it
\* returns is the full envelope.
C1_NeverRaises ==
  /\ stage # "raised"
  /\ stage = "returned" => DOMAIN envelope = EnvelopeKeys

\* C9: when the dispatcher call failed or its output was malformed or
\* schema-invalid, the decision the turn goes on with is the default one
\* (intent "ask", no tools_hint, the friendly style), the turn ends by
\* returning, and the text it returns is not empty.
C9_DefaultDecision ==
  h_jr_bad =>
    /\ Get(jr, "intent", "") = "ask"
    /\ jr.tools_hint = List(<<>>)
    /\ jr.style_directive = "friendly and short"
    /\ stage # "raised"
    /\ stage = "returned" => envelope.text # <<>>

\* C10: as long as the model answers every call, an executor whose first
\* output is invalid is called once more, for repair, and not otherwise; when
\* the repair output is invalid too the reply is the apology; the call always
\* ends with a reply that has a text, after at most SENIOR_MAX_CALLS model
\* calls.
C10_RepairOnceElseApology ==
  (sr.ran /\ sr.why # "llm") =>
    /\ ~sr.raised
    /\ "text" \in DOMAIN sr.data
    /\ sr.calls <= SENIOR_MAX_CALLS
    /\ sr.repairs = IF sr.first \in {"unparseable", "schema_invalid"} THEN 1 ELSE 0
    /\ (sr.first \in {"unparseable", "schema_invalid"}
          /\ sr.repair \in {"unparseable", "schema_invalid"})
         => sr.data.text = APOLOGY

\* C11: a failure of the retrieval call does not end the turn: handle_user
\* is never left by the exception of rag_search (the turn goes on with no
\* hits and returns its envelope).
C11_RagFailureNonFatal == ~(stage = "raised" /\ raised = "rag_search")

\* C12: in a turn that returned, every tool call of the envelope that does
\* not fail itself has its result in the envelope's tool_results, whatever
\* the other calls did.
C12_ToolCallsIndependent ==
  stage = "returned" =>
    \A i \in DOMAIN envelope.tool_calls :
      i \notin h_tool_fail =>
        \E j \in DOMAIN envelope.tool_results :
          envelope.tool_results[j].name = envelope.tool_calls[i].name

\* C13: what the client of /chat is answered is the envelope with its text,
\* never an error response that carries the text of an exception.
C13_ClientNeverSeesError ==
  response # NoValue =>
    /\ response.status = 200
    /\ "text" \in DOMAIN response.body
    /\ "detail" \notin DOMAIN response.body

\* C14: every turn comes to its end: handle_user eventually returns (or is
\* left by an exception), whatever the collaborators do.
C14_TurnTerminates == <>(stage \in {"returned", "raised"})

(***************************************************************************)
(* Properties of the affect state                                          *)
(***************************************************************************)
\* C15: after any sequence of set_levels, apply_delta, decay_step and
\* sleep_reset, the snapshot of every process holds, for each of the ten
\* channels, an integer in [0, 11].
C15_LevelsBounded ==
  \A p \in Procs :
    /\ DOMAIN snapshot(levels[p]) = _NEUROTRANSMITTERS
    /\ \A n \in _NEUROTRANSMITTERS : snapshot(levels[p])[n] \in 0..LEVEL_MAX

\* set_levels has clamped 20 to 11 and rounded 5.5 to 6, and a later
\* mutator has moved dopamine off the bound
C15_Witness ==
  /\ levels["cli"]["serotonin"] = 6
  /\ levels["cli"]["dopamine"] \in 1..(LEVEL_MAX - 1)
  /\ levels["cli"]["histamine"] = LEVEL_MAX

\* C16: for every reachable affect state and every bias_map of the persona,
\* bias_to_style gives a temperature in [0.1, 1.3], an integer max_tokens in
\* [128, 1024] and every bias scalar in [0, 1].
C16_StyleBounded ==
  \A sb \in StyleBaselines :
    LET style == bias_to_style(levels["cli"], sb)
    IN /\ style.temperature \in LEVEL_MAX..(13 * LEVEL_MAX)
       /\ style.max_tokens \in 128..1024
       /\ \A k \in BIAS_KEYS :
            style[IF k = "humor" THEN "humor_bias"
                  ELSE IF k = "structure" THEN "structure_bias"
                  ELSE IF k = "ask_clarify" THEN "ask_clarify_bias"
                  ELSE IF k = "brevity" THEN "brevity_bias"
                  ELSE IF k = "positivity" THEN "positivity_bias"
                  ELSE IF k = "warmth" THEN "warmth_bias"
                  ELSE "alertness_bias"] \in 0..StyleUnit

\* every channel is at its upper bound: the sums of bias_to_style are at
\* their extremes
C16_Witness == \A n \in _NEUROTRANSMITTERS : levels["cli"][n] = LEVEL_MAX

(***************************************************************************)
(* Properties of the bandit                                                *)
(***************************************************************************)
\* C17: every arm of the table has plays >= wins >= 0, whatever updates,
\* feedbacks and decays have run and however they interleave.
C17_PlaysWinsOrdered ==
  \A a \in Arms :
    bandit_stats[a].row =>
      /\ bandit_stats[a].wins >= 0
      /\ bandit_stats[a].plays >= bandit_stats[a].wins

\* an arm created by a first update has since been updated and decayed
C17_Witness ==
  /\ b_decays >= 1
  /\ b_done >= 2
  /\ \E a \in Arms :
       /\ bandit_stats[a].row
       /\ bandit_stats[a].wins > 0
       /\ bandit_stats[a].plays % One # 0

\* the row upsert_bandit starts from: the stored one, or the prior
\* wins = 1, plays = 2 of an unseen pair
PriorOr(row) == IF row.row THEN row ELSE Row(One, 2 * One)

\* C18: a call that records an outcome, no other writer running beside it,
\* leaves its arm with plays + 1 and with wins + 1 if reward > 0, wins + 0
\* otherwise, counted from the prior (1, 2) when the pair was unseen; no
\* other arm changes.
C18_OutcomeCounts ==
  [][\A c \in Callers :
       (b_pc[c] = "read" /\ b_pc'[c] = "idle" /\ b_call[c].solo) =>
         LET arm == b_call[c].arm
             old == PriorOr(bandit_stats[arm])
         IN /\ bandit_stats'[arm].row
            /\ bandit_stats'[arm].plays = old.plays + One
            /\ bandit_stats'[arm].wins =
                 old.wins + (IF b_call[c].reward > 0 THEN One ELSE 0)
            /\ \A a \in Arms \ {arm} : bandit_stats'[a] = bandit_stats[a]]_vars

\* an unseen pair has got a win and then a loss: wins 2, plays 4
C18_Witness ==
  /\ b_decays = 0
  /\ b_done = 2
  /\ bandit_stats[<<"ask", "good">>] = Row(2 * One, 4 * One)

\* estimated_rate(intent, kind) x confidence, as a fraction
Score(stats, intent, s) ==
  LET row == stats[<<intent, Get(s, "kind", "good")>>]
      rate == IF row.row THEN <<row.wins, row.plays>> ELSE <<1, 2>>
      conf == Get(s, "confidence", <<1, 2>>)
  IN <<rate[1] * conf[1], rate[2] * conf[2]>>

\* the first candidate, in input order, whose score is maximal
FirstMax(stats, intent, suggestions) ==
  LET sc(i) == Score(stats, intent, suggestions[i])
      AtLeast(a, b) == a[1] * b[2] >= b[1] * a[2]
  IN suggestions[CHOOSE i \in DOMAIN suggestions :
                   /\ \A j \in DOMAIN suggestions : AtLeast(sc(i), sc(j))
                   /\ \A j \in 1..(i - 1) : ~AtLeast(sc(j), sc(i))]

\* C19: a pick that does not explore returns, for candidates with a
\* confidence in [0, 1], the first candidate in input order whose score
\* estimated_rate x confidence is maximal.
C19_PickFirstMax ==
  (picked.ran /\ ~picked.explore /\ picked.suggestions # <<>>) =>
    picked.choice = FirstMax(bandit_stats, picked.intent, picked.suggestions)

\* good is unseen (rate 1/2), mischief has wins 9 and plays 10, both have
\* the default confidence: the pick is mischief
C19_Witness ==
  /\ picked.ran
  /\ ~picked.explore
  /\ picked.intent = "task"
  /\ picked.suggestions =
       <<[kind |-> "good", text |-> "a"], [kind |-> "mischief", text |-> "b"]>>
  /\ ~bandit_stats[<<"task", "good">>].row
  /\ bandit_stats[<<"task", "mischief">>] = Row(9 * One, 10 * One)
  /\ picked.choice.kind = "mischief"

\* C20: for a list that is not empty pick returns one of its candidates,
\* exploring or not; for the empty list it returns no selection and has read
\* no arm.
C20_PickAmongCandidates ==
  picked.ran =>
    IF picked.suggestions # <<>>
    THEN picked.choice \in Range(picked.suggestions)
    ELSE picked.choice = <<>> /\ picked.reads = {}

\* an exploring pick has returned a candidate that is not the best one
C20_Witness ==
  /\ picked.ran
  /\ picked.explore
  /\ picked.suggestions # <<>>
  /\ picked.choice # FirstMax(bandit_stats, picked.intent, picked.suggestions)

\* C21: once every call of upsert_bandit has ended (and no decay has run),
\* an arm on which n calls have ended has a row whose plays has grown by
\* exactly n and whose wins by the number of positive rewards among them,
\* counted from the row it had, or from the prior (1, 2) of an unseen pair:
\* no update is lost and the row is created once, however the calls overlap.
C21_AtomicPerArm ==
  (b_decays = 0 /\ \A c \in Callers : b_pc[c] = "idle") =>
    \A a \in Arms :
      b_hist[a].n > 0 =>
        /\ bandit_stats[a].row
        /\ bandit_stats[a].plays = PriorOr(b_hist[a].start).plays + b_hist[a].n * One
        /\ bandit_stats[a].wins = PriorOr(b_hist[a].start).wins + b_hist[a].pos * One

(***************************************************************************)
(* Properties of the server's endpoints                                    *)
(***************************************************************************)
\* the pair recorded for a message, when both keys are recorded
Recorded(meta, msg_id) ==
  IF msg_id \in DOMAIN meta /\ {"last_intent", "last_kind"} \subseteq DOMAIN meta[msg_id]
  THEN {<<meta[msg_id].last_intent, meta[msg_id].last_kind>>}
  ELSE {}

\* C22: a turn that returns has recorded, for its assistant message, the
\* intent and the kind of that turn; a feedback "up" or "down" for a message
\* with a recorded pair changes the row of exactly that pair's arm; and no
\* step of the turn changes any row of bandit_stats.
C22_FeedbackUpdatesRecordedArm ==
  [][/\ stage' = "returned" =>
          Recorded(message_meta', envelope'.assistant_msg_id) =
            {<<bandit_intent(jr'), envelope'.bandit_kind>>}
     /\ (feedback' # feedback /\ reward_of(Last(feedback').kind) # 0
           /\ Recorded(message_meta, Last(feedback').msg_id) \cap Arms # {})
          => {a \in Arms : bandit_stats'[a] # bandit_stats[a]} =
               Recorded(message_meta, Last(feedback').msg_id)
     /\ stage' # stage => bandit_stats' = bandit_stats]_vars

\* C27: when the dispatcher's output was unparsable or schema-invalid, the
\* dispatcher has been called a second time, exactly once, with a stricter
\* repair instruction, before the turn goes on with the default decision.
C27_OneRepairRetry ==
  (h_jr_bad /\ h_jr_calls # <<>> /\ h_jr_calls[1].out # "raise") =>
    /\ Len(h_jr_calls) = 2
    /\ h_jr_calls[2].repair \/ h_jr_calls[2].prompt # h_jr_calls[1].prompt

\* the refining call came back with a text that is not empty
RefineGaveText == ~h_refine.refined.raised /\ h_refine.refined.data.text # <<>>

\* C28: after the span refine, the refining call has been made exactly when
\* tool_results is not empty. The reply is then the draft with only its text
\* replaced when the call gave a text, and the draft itself otherwise; the
\* text a turn returns is the filter applied to that text, and the
\* tool_calls it returns are the draft's.
C28_RefineOnlyAfterTools ==
  stage \in {"guard", "returned"} =>
    LET draft == h_refine.draft
        gave == h_refine.called /\ RefineGaveText
        text == IF gave THEN h_refine.refined.data.text
                ELSE Get(draft, "text", <<>>)
    IN /\ h_refine.called <=> tool_results # <<>>
       /\ reply = IF gave THEN SetKey(draft, "text", text) ELSE draft
       /\ stage = "returned" =>
            /\ envelope.text = soft_censor(text).out
            /\ envelope.tool_calls = Get(draft, "tool_calls", List(<<>>)).items

\* a turn has returned the refined text after a refining call whose output
\* also held tool_calls
C28_Witness ==
  /\ stage = "returned"
  /\ h_refine.called
  /\ RefineGaveText
  /\ "tool_calls" \in DOMAIN h_refine.refined.data
  /\ envelope.text # soft_censor(Get(h_refine.draft, "text", <<>>)).out

\* the names the dispatcher's decision hints at
Hinted ==
  LET names == _normalise_tool_hints(Get(jr, "tools_hint", NotAList))
  IN {names[i] : i \in DOMAIN names}

\* C29: the instructions handed to the executor are those of hinted tools
\* only: every key is a name the dispatcher hinted at and the name of an
\* enabled row of the tools table, the value is that row's instruction, and
\* there is no key at all when nothing is hinted.
C29_InstructionsOnlyForHinted ==
  h_tools # NoValue =>
    LET instr == h_tools.tool_instructions
    IN /\ \A n \in DOMAIN instr :
            /\ n \in Hinted
            /\ \E r \in tools :
                 r.name = n /\ r.enabled = 1 /\ r.instruction = instr[n]
       /\ Hinted = {} => DOMAIN instr = {}

\* the executor got the instruction of one hinted tool while another hinted
\* tool is not registered and a registered, enabled tool is not hinted
C29_Witness ==
  /\ h_tools # NoValue
  /\ DOMAIN h_tools.tool_instructions = {"note.create"}
  /\ "weather.get" \in Hinted
  /\ \E r \in tools : r.name = "alias.add" /\ r.enabled = 1

\* the stages of handle_user in the order of its statements: line 51, the
\* spans env, junior, neuro and rag, pack_budget and sr_generate inside the
\* span senior, the spans tools, refine and guard, line 282
STAGE_ORDER ==
  <<"insert_user", "env", "junior", "neuro", "rag", "pack", "sr_generate",
    "tools", "refine", "guard", "insert_assistant">>

\* C26: the stages a turn has started are, in order, the first ones of the
\* fixed order, each once; a turn that returns has run all eleven; and once
\* a stage has failed or does not come back, no further stage starts.
C26_StagesInOrder ==
  [][/\ Len(h_steps') <= Len(STAGE_ORDER)
     /\ h_steps' = SubSeq(STAGE_ORDER, 1, Len(h_steps'))
     /\ stage' = "returned" => h_steps' = STAGE_ORDER
     /\ stage \in {"raised", "blocked", "returned"} => h_steps' = h_steps]_vars

\* a turn has returned after tool calls that ran and a refinement
C26_Witness ==
  /\ stage = "returned"
  /\ h_steps = STAGE_ORDER
  /\ envelope.tool_results # <<>>
  /\ envelope.rag_hits # <<>>

\* the stages of a turn after its first statement and before its last
Underway ==
  {"env", "junior", "neuro", "rag", "senior", "tools", "refine", "guard",
   "blocked"}

\* C25: from its first statement on, and so before any model call, a turn
\* has appended the inbound message of its user; a turn that returns has
\* appended exactly one more, the assistant message of that user whose text
\* is the filtered text of the envelope; no step removes a message or changes
\* one apart from its approved flag, and the flag changes only in a step of
\* the approval endpoint, which appends nothing and is no step of the turn.
C25_TwoMessagesAppendOnly ==
  [][/\ stage' \in Underway =>
          /\ Len(messages') = 1
          /\ messages'[1].role = "user"
          /\ messages'[1].text = USER_TEXT
          /\ messages'[1].user_id = USER_ID
     /\ stage' = "returned" =>
          /\ Len(messages') = 2
          /\ messages'[1].role = "user"
          /\ messages'[2].role = "assistant"
          /\ messages'[2].user_id = messages'[1].user_id
          /\ messages'[2].text = envelope'.text
          /\ messages'[2].id = envelope'.assistant_msg_id
     /\ Len(messages') >= Len(messages)
     /\ \A i \in DOMAIN messages :
          /\ [messages'[i] EXCEPT !.approved = 0] = [messages[i] EXCEPT !.approved = 0]
          /\ messages'[i] # messages[i] =>
               /\ Len(messages') = Len(messages)
               /\ stage' = stage]_vars

\* a turn has returned a text of which the filter masked a part, and its
\* assistant message has then been approved
C25_Witness ==
  /\ stage = "returned"
  /\ "[email]" \in Range(envelope.text)
  /\ messages[2].approved = 1
  /\ messages[1].approved = 0

(***************************************************************************)
(* Properties of the budget allocator                                      *)
(***************************************************************************)
\* the call of trim has returned a bundle
TrimReturned == packed # NoValue /\ packed # TypeError

\* the estimated cost of a list of snippets
RECURSIVE rag_cost(_)
rag_cost(rag) ==
  IF rag = <<>> THEN 0
  ELSE count_tokens(Get(Head(rag), "text", <<>>)) + rag_cost(Tail(rag))

\* the estimated cost of the metadata: nothing for {}
meta_cost(meta) == IF meta = <<>> THEN 0 ELSE count_tokens(json_dumps(meta))

\* the estimated cost of a packed bundle
BundleCost(bundle) ==
  count_struct(bundle.history) + meta_cost(bundle.junior_meta)
    + rag_cost(bundle.rag_hits)

\* the newest n messages of a history
Newest(history, n) == SubSeq(history, Len(history) - n + 1, Len(history))

\* the cost of the history messages that are kept whatever they cost
MinHistoryCost(history) ==
  count_struct(Newest(history, Min(MIN_MESSAGES, Len(history))))

\* C23: the estimated cost of the packed bundle is at most max_tokens plus
\* one rounding unit, or else at most the cost of the guaranteed minimum of
\* history messages.
C23_BundleWithinBudget ==
  TrimReturned =>
    BundleCost(packed) <= Max(pack_in.max_tokens + 1, MinHistoryCost(pack_in.history))

\* C24: history' is the newest k messages of the history, in their order,
\* with min(10, len(history)) <= k <= 16, whatever they cost.
C24_HistorySuffix ==
  TrimReturned =>
    LET k == Len(packed.history)
        n == Len(pack_in.history)
    IN /\ k <= n
       /\ packed.history = Newest(pack_in.history, k)
       /\ k >= Min(MIN_MESSAGES, n)
       /\ k <= MAX_MESSAGES

\* ten messages far over the cap are all kept, and of eighteen short ones
\* only sixteen
C24_Witness ==
  /\ TrimReturned
  /\ \/ /\ Len(pack_in.history) = MaxHistory
        /\ Len(packed.history) = MAX_MESSAGES
        /\ pack_in.max_tokens = 1024
     \/ /\ Len(pack_in.history) = MIN_MESSAGES
        /\ Len(packed.history) = MIN_MESSAGES
        /\ count_struct(packed.history) > HISTORY_CAP_CEIL
        /\ pack_in.max_tokens = 300

\* C30: metadata' is the metadata as it was handed in or it is empty, and it
\* is the metadata only when its cost fits what max_tokens leaves after the
\* kept history; also for an empty history.
C30_MetaWholeOrNothing ==
  TrimReturned =>
    /\ packed.junior_meta \in {<<>>, pack_in.junior_meta}
    /\ packed.junior_meta # <<>> =>
         meta_cost(pack_in.junior_meta)
           <= pack_in.max_tokens - count_struct(packed.history)

\* what max_tokens leaves after the packed history and the packed metadata
RemainingForRag ==
  Max(0, pack_in.max_tokens - count_struct(packed.history)
           - meta_cost(packed.junior_meta))

\* C31: retrieved' is the first k snippets of the input in their order; they
\* fit together into what the budget leaves after history' and metadata',
\* and the snippet after them, if there is one, does not fit any more.
C31_RagGreedyPrefix ==
  TrimReturned =>
    LET rag == pack_in.rag_hits
        k == Len(packed.rag_hits)
    IN /\ k <= Len(rag)
       /\ packed.rag_hits = SubSeq(rag, 1, k)
       /\ rag_cost(packed.rag_hits) <= RemainingForRag
       /\ k < Len(rag) => rag_cost(SubSeq(rag, 1, k + 1)) > RemainingForRag

\* C32: metadata that json.dumps cannot serialize is treated as empty
\* metadata: trim returns, and what it returns is what it returns for the
\* same history, snippets and budget with {} as the metadata.
C32_UnserializableMetaAsEmpty ==
  (packed # NoValue /\ ~json_serializable(pack_in.junior_meta)) =>
    /\ TrimReturned
    /\ packed = trim(pack_in.history, pack_in.rag_hits, <<>>, pack_in.max_tokens)

\* the text `small` stands somewhere in the text `big`
Contains(big, small) ==
  \E i \in 1..(Len(big) - Len(small) + 1) :
    SubSeq(big, i, i + Len(small) - 1) = small

\* the permanent tier holds the text of the temp-tier row r
InPermanent(long, r) ==
  \E j \in DOMAIN long :
    long[j].date = r.date /\ Contains(long[j].summary, r.text)

\* C33: when a run commits, no temp-tier summary dated on or before the
\* cutoff (now - 7 days) remains, the text of every such summary is in the
\* permanent tier, and no summary has left the temp tier without its text
\* being in the permanent tier.
C33_PromotionKeepsText ==
  [][\A p \in Procs :
       Committed(p) =>
         LET temp == TxSummaries(p)
             cutoff == TtlDay(now)
         IN /\ \A i \in DOMAIN day_summaries' : day_summaries'[i].date > cutoff
            /\ \A i \in DOMAIN temp :
                 temp[i].date <= cutoff => InPermanent(long_days', temp[i])
            /\ \A i \in DOMAIN temp :
                 temp[i] \notin Range(day_summaries') =>
                   InPermanent(long_days', temp[i])]_vars

\* the entries of an argument whose names are channels
KnownChannels(d) == [k \in DOMAIN d \cap _NEUROTRANSMITTERS |-> d[k]]

POSITIVE_WEIGHTS ==
  {<<"dopamine", "temperature">>, <<"dopamine", "max_tokens">>,
   <<"dopamine", "humor_bias">>, <<"acetylcholine", "structure_bias">>,
   <<"glutamate", "structure_bias">>, <<"acetylcholine", "ask_clarify_bias">>,
   <<"norepinephrine", "brevity_bias">>, <<"vasopressin", "brevity_bias">>,
   <<"serotonin", "warmth_bias">>, <<"oxytocin", "warmth_bias">>,
   <<"serotonin", "positivity_bias">>, <<"endorphins", "positivity_bias">>,
   <<"histamine", "alertness_bias">>}

OthersAtBaseline(cur, name) ==
  \A n \in _NEUROTRANSMITTERS \ {name} : cur[n] = _BASELINE[n]

\* C35: in every reachable affect state and for every bias_map, raising one
\* channel by one level or up to 11, the others fixed, does not decrease an
\* output the channel is positively weighted in; and with the others at
\* baseline the temperature at dopamine 11 is greater than at dopamine 0.
C35_Monotonic ==
  \A sb \in StyleBaselines :
    LET cur == levels["cli"]
        lower == bias_to_style(cur, sb)
    IN /\ \A n \in {w[1] : w \in POSITIVE_WEIGHTS} :
            \A v \in {cur[n] + 1, LEVEL_MAX} \ {cur[n], LEVEL_MAX + 1} :
              LET higher == bias_to_style([cur EXCEPT ![n] = v], sb)
              IN \A w \in POSITIVE_WEIGHTS :
                   w[1] = n => higher[w[2]] >= lower[w[2]]
       /\ OthersAtBaseline(cur, "dopamine") =>
            bias_to_style([cur EXCEPT !["dopamine"] = LEVEL_MAX], sb).temperature
              > bias_to_style([cur EXCEPT !["dopamine"] = 0], sb).temperature

\* dopamine at 11 and every other channel at baseline: the temperature is
\* 0.9, against 0.7 in the baseline state
C35_Witness ==
  /\ levels["cli"]["dopamine"] = LEVEL_MAX
  /\ OthersAtBaseline(levels["cli"], "dopamine")
  /\ bias_to_style(levels["cli"], [k \in BIAS_KEYS |-> 0]).temperature
       = 9 * LEVEL_MAX
  /\ bias_to_style(_BASELINE, [k \in BIAS_KEYS |-> 0]).temperature
       = 7 * LEVEL_MAX

\* a step of decay_bandit
Decayed == b_decays' = b_decays + 1

\* C36: a call of decay_bandit multiplies the wins and the plays of every
\* arm by the one factor (1/2 in the model), so wins/plays of every arm is
\* what it was, and the arms of the table are the same as before.
C36_DecayKeepsRate ==
  [][Decayed =>
       \A a \in Arms :
         /\ bandit_stats'[a].row = bandit_stats[a].row
         /\ bandit_stats[a].row =>
              /\ 2 * bandit_stats'[a].wins = bandit_stats[a].wins
              /\ 2 * bandit_stats'[a].plays = bandit_stats[a].plays
              /\ bandit_stats'[a].wins * bandit_stats[a].plays
                   = bandit_stats[a].wins * bandit_stats'[a].plays]_vars

\* two arms with different rates have been decayed twice
C36_Witness ==
  /\ b_decays = MaxDecays
  /\ \E a, b \in Arms :
       /\ bandit_stats[a].row /\ bandit_stats[b].row
       /\ bandit_stats[a].plays > 0 /\ bandit_stats[b].plays > 0
       /\ bandit_stats[a].wins * bandit_stats[b].plays
            # bandit_stats[b].wins * bandit_stats[a].plays

\* the names of the tools whose handler run_all has called: the calls up to
\* the first one that raises, those with a name _resolve_entrypoint maps
InvokedNames(tool_calls, bad) ==
  {tool_calls[i].name :
     i \in {k \in DOMAIN tool_calls :
              /\ tool_calls[k].name \in TOOL_NAMES
              /\ \A j \in bad : k <= j}}

\* C37: every tool invoked by the tools stage of a turn is named in the
\* tools_hint of that turn's dispatcher decision; with the default decision
\* (no tools hinted) no tool is invoked.
C37_InvokedToolsWereHinted ==
  [][(stage = "tools" /\ stage' = "refine") =>
       InvokedNames(Get(reply, "tool_calls", List(<<>>)).items, h_tool_fail')
         \subseteq Hinted]_vars

\* C38: decay_step called again and again with the default rate brings
\* every channel to its baseline at last.
C38_DecayReachesBaseline == <>(levels["cli"] = _BASELINE)

(***************************************************************************)
(* Properties of the tools                                                 *)
(***************************************************************************)
\* the notification messages of reminder id
Notices(id) == {i \in DOMAIN messages : messages[i].text = Notice(id)}

\* C39: each reminder is delivered at most once, whatever the processes do
\* and wherever one of them stops: the log holds at most one notification
\* of it.
C39_DeliveredAtMostOnce ==
  \A id \in RemIds : Cardinality(Notices(id)) <= 1

PrimaryOf(rows, user_id) ==
  {r \in rows : r.user_id = user_id /\ r.is_primary = 1}

\* C40: after a call of alias.set_primary every user has at most one
\* primary alias, and a call that returns ok = false has left the table
\* aliases as it was.
C40_SetPrimaryFailureChangesNothing ==
  [][aliases'.ret.op = "set_primary" =>
       /\ \A u \in AliasUsers : Cardinality(PrimaryOf(aliases'.rows, u)) <= 1
       /\ ~aliases'.ret.ok => aliases'.rows = aliases.rows]_vars

====
